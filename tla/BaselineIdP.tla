---------------------------- MODULE BaselineIdP ----------------------------
(* packages/baseline/baseline_worker.ts: the PostgreSQL part of the        *)
(* classical baseline, with workers that overlap when the guard of         *)
(* harness/bench_env.ts is overridden.                                     *)
(*                                                                         *)
(* PostgreSQL is external: a query is one step, and the statements of one  *)
(* query string are one transaction.  A user is its serial number, a token *)
(* the worker that issued it and its index.  Tokens expire an hour after   *)
(* they were inserted, hence in the order in which they were.              *)
EXTENDS Naturals, FiniteSets

CONSTANTS Workers, N, WARMUP
ASSUME BaselineAssumption == N \in Nat \ {0} /\ WARMUP \in Nat

VARIABLES
  users, tokens, serial,  \* the tables and the sequence of users.id
  worker,                 \* pc, loop index i, samples of the two timed loops
  disturbed,              \* others emptied the tables: tables in use, tokens in use
  lost,                   \* workers whose connection was lost
  expired                 \* how many tokens of each worker are an hour old
vars == <<users, tokens, serial, worker, disturbed, lost, expired>>

Total == N + WARMUP
InUse == {"users", "tokens", "select"}

Init ==
  /\ users = {} /\ tokens = {} /\ serial = 1
  /\ worker = [w \in Workers |-> [pc |-> "start", i |-> 0, inserts |-> 0, selects |-> 0]]
  /\ disturbed = [w \in Workers |-> {}]
  /\ lost = {}
  /\ expired = [w \in Workers |-> 0]

\* One turn of a loop that is left after Total turns.
Turn(w, next, field) ==
  LET r == worker[w]
      last == r.i + 1 = Total
      sample(f) == IF field = f /\ r.i >= WARMUP THEN 1 ELSE 0
  IN worker' = [worker EXCEPT ![w] =
       [pc |-> IF last THEN next ELSE r.pc, i |-> IF last THEN 0 ELSE r.i + 1,
        inserts |-> r.inserts + sample("inserts"),
        selects |-> r.selects + sample("selects")]]

Throw(w) == worker' = [worker EXCEPT ![w].pc = "threw"]

\* Its tokens are at stake from the first it inserts to the last it looks up.
TokensAtStake(w) == worker[w].pc = "select" \/ (worker[w].pc = "tokens" /\ worker[w].i > 0)

\* CREATE TABLE IF NOT EXISTS ...; TRUNCATE tokens, users RESTART IDENTITY
truncate(w) ==
  /\ worker[w].pc = "start"
  /\ users' = {} /\ tokens' = {} /\ serial' = 1
  /\ worker' = [worker EXCEPT ![w].pc = "users"]
  /\ disturbed' = [v \in Workers |->
       disturbed[v] \cup (IF v # w /\ worker[v].pc \in InUse THEN {"tables"} ELSE {})
                    \cup (IF v # w /\ TokensAtStake(v) THEN {"tokens"} ELSE {})]
  /\ UNCHANGED <<lost, expired>>

insertUser(w) ==
  /\ worker[w].pc = "users"
  /\ users' = users \cup {serial} /\ serial' = serial + 1
  /\ Turn(w, "tokens", "inserts")
  /\ UNCHANGED <<tokens, disturbed, lost, expired>>

\* Seeded defect: the users of the warm-up are skipped, and one more.
userOfSkips(i) == (i % N) + WARMUP + 2

userOf(i) == (i % N) + 1

\* The foreign key refuses a user that does not exist.
insertToken(w) ==
  /\ worker[w].pc = "tokens"
  /\ LET u == userOf(worker[w].i) IN
       IF u \in users
       THEN /\ tokens' = tokens \cup {[token |-> <<w, worker[w].i>>, user |-> u]}
            /\ Turn(w, "select", "")
       ELSE Throw(w) /\ UNCHANGED tokens
  /\ UNCHANGED <<users, serial, disturbed, lost, expired>>

\* WHERE t.token = $1 AND t.expires_at > now(), joined with the users.
Found(w) ==
  LET i == worker[w].i % Total
  IN {t \in tokens : t.token = <<w, i>> /\ i >= expired[w] /\ t.user \in users}

\* Seeded defect: an empty answer is timed like any other.
selectTokenUnchecked(w) ==
  /\ worker[w].pc = "select"
  /\ Turn(w, "ended", "selects")
  /\ UNCHANGED <<users, tokens, serial, disturbed, lost, expired>>

selectToken(w) ==
  /\ worker[w].pc = "select"
  /\ IF Cardinality(Found(w)) = 1 THEN Turn(w, "ended", "selects") ELSE Throw(w)
  /\ UNCHANGED <<users, tokens, serial, disturbed, lost, expired>>

\* The server goes away: the pending query rejects.
ConnectionLost(w) ==
  /\ worker[w].pc \in InUse \cup {"start"}
  /\ Throw(w)
  /\ lost' = lost \cup {w}
  /\ UNCHANGED <<users, tokens, serial, disturbed, expired>>

\* An hour has passed since w inserted its oldest unexpired token: a long run,
\* or a host that was suspended.
TokenExpires(w) ==
  /\ expired[w] < (CASE worker[w].pc = "tokens" -> worker[w].i
                     [] worker[w].pc = "select" -> Total
                     [] OTHER -> 0)
  /\ expired' = [expired EXCEPT ![w] = @ + 1]
  /\ UNCHANGED <<users, tokens, serial, worker, disturbed, lost>>

Next ==
  \E w \in Workers :
    \/ truncate(w) \/ insertUser(w) \/ insertToken(w) \/ selectToken(w)
    \/ ConnectionLost(w) \/ TokenExpires(w)

Spec == Init /\ [][Next]_vars

-----------------------------------------------------------------------------
(* The tables' keys, and a worker that ended has N samples of each loop,   *)
(* whatever the number of warm-up turns.                                   *)
TypeOK ==
  /\ users = 1..(serial - 1)
  /\ \A t \in tokens : t.user \in users
  /\ \A w \in Workers :
       /\ worker[w].pc \in InUse \cup {"start", "ended", "threw"}
       /\ worker[w].i \in 0..(Total - 1)
       /\ worker[w].inserts <= N /\ worker[w].selects <= N
       /\ expired[w] \in 0..Total
       /\ worker[w].pc = "ended" => worker[w].inserts = N /\ worker[w].selects = N

(* baseline_worker.ts:193-203: a worker that publishes its look-up times   *)
(* looked up tokens in tables that nobody emptied in between: another      *)
(* worker's TRUNCATE after its first token makes it fail.                  *)
PublishedLookupsAreUndisturbed ==
  \A w \in Workers : worker[w].pc = "ended" => "tokens" \notin disturbed[w]

(* baseline_worker.ts:181-188 and 197-201: a worker fails only when its    *)
(* connection is lost, another one emptied the tables it was using, or the *)
(* very token it looked up was issued an hour before: the tokens' users    *)
(* exist and every other token is found, with or without warm-up.          *)
FailureHasACause ==
  \A w \in Workers : worker[w].pc = "threw"
    => w \in lost \/ disturbed[w] # {} \/ worker[w].i < expired[w]
=============================================================================
