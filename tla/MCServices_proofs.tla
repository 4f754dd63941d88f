-------------------------- MODULE MCServices_proofs --------------------------
(* The parts of MCServices for any number of calls, runs and workers, any  *)
(* keys, costs and limits.                                                 *)
EXTENDS MCServices, FiniteSetTheorems, WellFoundedInduction, TLAPS

-----------------------------------------------------------------------------
(* BaselineIdP: any number of overlapping workers, samples and warm-up     *)
(* turns.                                                                  *)

tok(w, j) == [token |-> <<w, j>>, user |-> userOf(j)]

Pcs == InUse \cup {"start", "ended", "threw"}

\* The worker's record, as far as the two properties depend on it.
Typed ==
  /\ users = 1..(serial - 1) /\ serial \in Nat \ {0}
  /\ worker \in [Workers -> [pc : Pcs, i : 0..(Total - 1), inserts : Nat, selects : Nat]]
  /\ disturbed \in [Workers -> SUBSET {"tables", "tokens"}]
  /\ lost \subseteq Workers
  /\ expired \in [Workers -> 0..Total]

\* A token is of one worker and one turn, and names the user of that turn.
TokensNamed == \A t \in tokens : \E v \in Workers, j \in 0..(Total - 1) : t = tok(v, j)

\* What an undisturbed worker has inserted is still there.
Kept(w) ==
  /\ worker[w].pc = "start" => worker[w].i = 0
  /\ disturbed[w] = {} =>
       /\ worker[w].pc = "users" => serial > worker[w].i
       /\ worker[w].pc = "tokens" =>
            /\ serial > Total
            /\ \A j \in 0..(worker[w].i - 1) : tok(w, j) \in tokens
       /\ worker[w].pc = "select" =>
            serial > Total /\ \A j \in 0..(Total - 1) : tok(w, j) \in tokens

\* A worker whose tokens were emptied will look one up that is gone: its
\* first, or the one it is at.
Doomed(w) ==
  "tokens" \in disturbed[w] =>
    /\ worker[w].pc \in {"tokens", "select", "threw"}
    /\ worker[w].pc = "tokens" =>
         worker[w].i > 0 /\ \A t \in tokens : t.token # <<w, 0>>
    /\ worker[w].pc = "select" => \A t \in tokens : t.token # <<w, worker[w].i>>

Inv ==
  /\ Typed /\ TokensNamed
  /\ \A w \in Workers : Kept(w) /\ Doomed(w)
  /\ FailureHasACause

-----------------------------------------------------------------------------
LEMMA Numbers ==
  /\ Total \in Nat \ {0} /\ N <= Total
  /\ \A i \in Nat : userOf(i) \in 1..N
  /\ \A i \in 0..(Total - 1) : i % Total = i
<1>1. Total \in Nat \ {0} /\ N <= Total
  BY BaselineAssumption DEF Total
<1>2. \A i \in Nat : userOf(i) \in 1..N
  BY BaselineAssumption DEF userOf
<1>3. \A i \in 0..(Total - 1) : i % Total = i
  BY <1>1
<1> QED
  BY <1>1, <1>2, <1>3

LEMMA InvInit == Init => Inv
BY BaselineAssumption DEF Init, Inv, Typed, TokensNamed, Kept, Doomed, FailureHasACause,
     Pcs, InUse, Total

\* One turn of a loop, field by field.
WorkerRecords == [pc : Pcs, i : 0..(Total - 1), inserts : Nat, selects : Nat]

LEMMA Turned ==
  ASSUME Inv, NEW w \in Workers, NEW next \in Pcs, NEW field, Turn(w, next, field)
  PROVE  /\ worker' \in [Workers -> WorkerRecords]
         /\ \A v \in Workers \ {w} : worker'[v] = worker[v]
         /\ IF worker[w].i + 1 = Total
            THEN worker'[w].pc = next /\ worker'[w].i = 0
            ELSE worker'[w].pc = worker[w].pc /\ worker'[w].i = worker[w].i + 1
         /\ worker'[w].inserts = worker[w].inserts
              + (IF field = "inserts" /\ worker[w].i >= WARMUP THEN 1 ELSE 0)
         /\ worker'[w].selects = worker[w].selects
              + (IF field = "selects" /\ worker[w].i >= WARMUP THEN 1 ELSE 0)
<1> DEFINE r == worker[w]
           r2 == [pc |-> IF r.i + 1 = Total THEN next ELSE r.pc,
                  i |-> IF r.i + 1 = Total THEN 0 ELSE r.i + 1,
                  inserts |-> r.inserts + (IF field = "inserts" /\ r.i >= WARMUP
                                           THEN 1 ELSE 0),
                  selects |-> r.selects + (IF field = "selects" /\ r.i >= WARMUP
                                           THEN 1 ELSE 0)]
<1>1. worker \in [Workers -> WorkerRecords]
  BY DEF Inv, Typed, WorkerRecords
<1>2. worker' = [worker EXCEPT ![w] = r2]
  BY DEF Turn
<1>3. r \in WorkerRecords /\ r.i \in 0..(Total - 1)
  BY <1>1 DEF WorkerRecords
<1>4. r2 \in WorkerRecords
  BY <1>3, Numbers DEF WorkerRecords
<1>5. worker' \in [Workers -> WorkerRecords] /\ worker'[w] = r2
        /\ \A v \in Workers \ {w} : worker'[v] = worker[v]
  BY <1>1, <1>2, <1>4
<1> QED
  BY <1>5

LEMMA Threw ==
  ASSUME Inv, NEW w \in Workers, Throw(w)
  PROVE  /\ worker' \in [Workers -> WorkerRecords]
         /\ \A v \in Workers \ {w} : worker'[v] = worker[v]
         /\ worker'[w].pc = "threw"
         /\ worker'[w].inserts = worker[w].inserts /\ worker'[w].selects = worker[w].selects
BY DEF Throw, Inv, Typed, WorkerRecords, Pcs

\* Every action leaves the types and the naming of tokens alone.
LEMMA TypedNext ==
  ASSUME Inv, [Next]_vars PROVE Typed' /\ TokensNamed'
<1> USE Numbers
<1>1. CASE UNCHANGED vars
  BY <1>1 DEF vars, Inv, Typed, TokensNamed
<1>2. ASSUME NEW w \in Workers, truncate(w) PROVE Typed' /\ TokensNamed'
  <2>1. worker' \in [Workers -> WorkerRecords]
    BY <1>2, ZenonT(60) DEF truncate, Inv, Typed, WorkerRecords, Pcs, InUse
  <2>2. disturbed' \in [Workers -> SUBSET {"tables", "tokens"}]
    BY <1>2 DEF truncate, Inv, Typed
  <2>3. users' = 1..(serial' - 1) /\ serial' \in Nat \ {0} /\ tokens' = {} /\ lost' = lost
        /\ expired' = expired
    BY <1>2 DEF truncate
  <2> QED
    BY <2>1, <2>2, <2>3 DEF WorkerRecords, Inv, Typed, TokensNamed
<1>3. ASSUME NEW w \in Workers, insertUser(w) PROVE Typed' /\ TokensNamed'
  <2>1. worker' \in [Workers -> WorkerRecords]
    BY <1>3, Turned DEF insertUser, Pcs, InUse
  <2>2. serial' = serial + 1 /\ serial \in Nat \ {0} /\ users' = (1..(serial - 1)) \cup {serial}
    BY <1>3 DEF insertUser, Inv, Typed
  <2>3. users' = 1..(serial' - 1) /\ serial' \in Nat \ {0}
    BY <2>2
  <2> QED
    BY <1>3, <2>1, <2>3 DEF insertUser, WorkerRecords, Inv, Typed, TokensNamed
<1>4. ASSUME NEW w \in Workers, insertToken(w) PROVE Typed' /\ TokensNamed'
  <2>0. worker' \in [Workers -> WorkerRecords]
    BY <1>4, Turned, Threw DEF insertToken, Pcs, InUse
  <2>1. Typed'
    BY <1>4, <2>0 DEF insertToken, WorkerRecords, Inv, Typed
  <2>2. \A t \in tokens' \ tokens : t = tok(w, worker[w].i)
    BY <1>4 DEF insertToken, tok
  <2>3. worker[w].i \in 0..(Total - 1)
    BY DEF Inv, Typed
  <2> QED
    BY <2>1, <2>2, <2>3 DEF Inv, TokensNamed
<1>5. ASSUME NEW w \in Workers, selectToken(w) PROVE Typed' /\ TokensNamed'
  <2>1. worker' \in [Workers -> WorkerRecords]
    BY <1>5, Turned, Threw DEF selectToken, Pcs, InUse
  <2> QED
    BY <1>5, <2>1 DEF selectToken, WorkerRecords, Inv, Typed, TokensNamed
<1>6. ASSUME NEW w \in Workers, ConnectionLost(w) PROVE Typed' /\ TokensNamed'
  <2>1. worker' \in [Workers -> WorkerRecords]
    BY <1>6, Threw DEF ConnectionLost
  <2> QED
    BY <1>6, <2>1 DEF ConnectionLost, WorkerRecords, Inv, Typed, TokensNamed
<1>7. ASSUME NEW w \in Workers, TokenExpires(w) PROVE Typed' /\ TokensNamed'
  <2>0. expired \in [Workers -> 0..Total] /\ Total \in Nat /\ worker[w].i \in 0..(Total - 1)
    BY DEF Inv, Typed
  <2>1. expired[w] < Total
    <3> DEFINE r == worker[w]
    <3>1. CASE r.pc = "tokens"
      BY <1>7, <2>0, <3>1 DEF TokenExpires
    <3>2. CASE r.pc = "select"
      BY <1>7, <2>0, <3>2 DEF TokenExpires
    <3>3. CASE r.pc \notin {"tokens", "select"}
      BY <1>7, <2>0, <3>3 DEF TokenExpires
    <3> QED
      BY <3>1, <3>2, <3>3
  <2>2. expired' \in [Workers -> 0..Total]
    BY <1>7, <2>0, <2>1 DEF TokenExpires
  <2> QED
    BY <1>7, <2>2 DEF TokenExpires, Inv, Typed, TokensNamed
<1> QED
  BY <1>1, <1>2, <1>3, <1>4, <1>5, <1>6, <1>7 DEF Next

\* What a look-up finds: the token of the turn if it is there and not an hour
\* old, or nothing.
LEMMA FoundOne ==
  ASSUME Inv, NEW w \in Workers, serial > Total, tok(w, worker[w].i) \in tokens,
         worker[w].i >= expired[w]
  PROVE  Cardinality(Found(w)) = 1
<1> DEFINE t == tok(w, worker[w].i)
<1>1. worker[w].i % Total = worker[w].i /\ worker[w].i \in 0..(Total - 1)
  BY Numbers DEF Inv, Typed
<1>2. t \in Found(w)
  <2>1. t.user \in 1..N /\ t.token = <<w, worker[w].i>>
    BY <1>1, Numbers DEF tok
  <2>2. t.user \in users
    <3>1. users = 1..(serial - 1) /\ serial \in Nat /\ N \in Nat
      BY BaselineAssumption DEF Inv, Typed
    <3>2. Total \in Nat /\ N <= Total
      BY Numbers
    <3> QED
      BY <2>1, <3>1, <3>2
  <2> QED
    BY <1>1, <2>1, <2>2 DEF Found
<1>3. ASSUME NEW x \in Found(w) PROVE x = t
  <2>1. x \in tokens /\ x.token = <<w, worker[w].i>>
    BY <1>1 DEF Found
  <2>2. PICK v \in Workers, j \in 0..(Total - 1) : x = tok(v, j)
    BY <2>1 DEF Inv, TokensNamed
  <2>3. v = w /\ j = worker[w].i
    BY <2>1, <2>2 DEF tok
  <2> QED
    BY <2>2, <2>3
<1>4. Found(w) = {t}
  BY <1>2, <1>3
<1> QED
  BY <1>4, FS_Singleton

LEMMA FoundNone ==
  ASSUME Inv, NEW w \in Workers, \A t \in tokens : t.token # <<w, worker[w].i>>
  PROVE  Cardinality(Found(w)) # 1
<1>1. worker[w].i % Total = worker[w].i
  BY Numbers DEF Inv, Typed
<1>2. Found(w) = {}
  BY <1>1 DEF Found
<1> QED
  BY <1>2, FS_EmptySet

-----------------------------------------------------------------------------
\* One worker's step leaves what the others rely on alone.
LEMMA OthersKeep ==
  ASSUME Inv, NEW w \in Workers, NEW v \in Workers, v # w,
         worker'[v] = worker[v], disturbed'[v] = disturbed[v],
         serial <= serial', serial' \in Nat, tokens \subseteq tokens',
         \A t \in tokens' \ tokens : t = tok(w, worker[w].i)
  PROVE  Kept(v)' /\ Doomed(v)'
<1>1. serial \in Nat /\ worker[v].i \in Nat /\ Total \in Nat
  BY Numbers DEF Inv, Typed
<1>2. Kept(v)'
  <2>1. Kept(v)
    BY DEF Inv
  <2>2. \A j : tok(v, j) \in tokens => tok(v, j) \in tokens'
    OBVIOUS
  <2> HIDE DEF tok
  <2> QED
    BY <1>1, <2>1, <2>2 DEF Kept
<1>3. \A t \in tokens' \ tokens : t.token[1] = w
  BY DEF tok
<1>4. Doomed(v)'
  BY <1>3 DEF Inv, Doomed
<1> QED
  BY <1>2, <1>4

LEMMA InvTruncate ==
  ASSUME Inv, NEW w \in Workers, truncate(w), NEW v \in Workers
  PROVE  Kept(v)' /\ Doomed(v)'
<1>1. /\ worker' = [worker EXCEPT ![w].pc = "users"] /\ worker[w].pc = "start"
      /\ tokens' = {} /\ serial' = 1
      /\ disturbed' = [x \in Workers |->
           disturbed[x] \cup (IF x # w /\ worker[x].pc \in InUse THEN {"tables"} ELSE {})
                        \cup (IF x # w /\ TokensAtStake(x) THEN {"tokens"} ELSE {})]
  BY DEF truncate
<1>2. worker \in [Workers -> WorkerRecords]
  BY DEF Inv, Typed, WorkerRecords
<1>3. Kept(v) /\ Doomed(v) /\ disturbed[v] \in SUBSET {"tables", "tokens"}
  BY DEF Inv, Typed
<1>4. CASE v = w
  <2>1. worker'[v].pc = "users" /\ worker'[v].i = 0 /\ disturbed'[v] = disturbed[v]
    BY <1>1, <1>2, <1>3, <1>4 DEF Kept, WorkerRecords
  <2>2. "tokens" \notin disturbed[v]
    BY <1>1, <1>3, <1>4 DEF Doomed
  <2> QED
    BY <1>1, <2>1, <2>2 DEF Kept, Doomed
<1>5. CASE v # w
  <2>1. worker'[v] = worker[v]
    BY <1>1, <1>2, <1>5
  <2>2. disturbed'[v] = disturbed[v]
          \cup (IF worker[v].pc \in InUse THEN {"tables"} ELSE {})
          \cup (IF TokensAtStake(v) THEN {"tokens"} ELSE {})
    BY <1>1, <1>5
  <2>3. Kept(v)'
    BY <1>3, <2>1, <2>2 DEF Kept, InUse
  <2>4. "tokens" \in disturbed'[v] => "tokens" \in disturbed[v] \/ TokensAtStake(v)
    BY <2>2
  <2>5. Doomed(v)'
    BY <1>1, <1>3, <2>1, <2>4 DEF Doomed, TokensAtStake
  <2> QED
    BY <2>3, <2>5
<1> QED
  BY <1>4, <1>5

LEMMA InvInsertUser ==
  ASSUME Inv, NEW w \in Workers, insertUser(w), NEW v \in Workers
  PROVE  Kept(v)' /\ Doomed(v)'
<1>1. /\ worker[w].pc = "users" /\ serial' = serial + 1 /\ serial \in Nat
      /\ tokens' = tokens /\ disturbed' = disturbed
  BY DEF insertUser, Inv, Typed
<1>2. /\ \A x \in Workers \ {w} : worker'[x] = worker[x]
      /\ IF worker[w].i + 1 = Total
         THEN worker'[w].pc = "tokens" /\ worker'[w].i = 0
         ELSE worker'[w].pc = worker[w].pc /\ worker'[w].i = worker[w].i + 1
  BY Turned DEF insertUser, Pcs, InUse
<1>3. CASE v # w
  BY <1>1, <1>2, <1>3, OthersKeep
<1>4. CASE v = w
  <2>1. Kept(v) /\ Doomed(v) /\ worker[v].i \in Nat /\ Total \in Nat
    BY Numbers DEF Inv, Typed
  <2>2. "tokens" \notin disturbed[v]
    BY <1>1, <1>4, <2>1 DEF Doomed
  <2>3. Kept(v)'
    BY <1>1, <1>2, <1>4, <2>1 DEF Kept
  <2> QED
    BY <1>1, <2>2, <2>3 DEF Doomed
<1> QED
  BY <1>3, <1>4

LEMMA InvInsertToken ==
  ASSUME Inv, NEW w \in Workers, insertToken(w), NEW v \in Workers
  PROVE  Kept(v)' /\ Doomed(v)'
<1> DEFINE t == tok(w, worker[w].i)
           Succeeds == userOf(worker[w].i) \in users
<1>1. /\ worker[w].pc = "tokens" /\ serial' = serial /\ disturbed' = disturbed
      /\ tokens' = IF Succeeds THEN tokens \cup {t} ELSE tokens
  BY DEF insertToken, tok
<1>2. /\ \A x \in Workers \ {w} : worker'[x] = worker[x]
      /\ ~Succeeds => worker'[w].pc = "threw"
      /\ Succeeds =>
           IF worker[w].i + 1 = Total
           THEN worker'[w].pc = "select" /\ worker'[w].i = 0
           ELSE worker'[w].pc = worker[w].pc /\ worker'[w].i = worker[w].i + 1
  BY Turned, Threw DEF insertToken, Pcs, InUse
<1>3. CASE v # w
  <2>1. serial \in Nat /\ serial <= serial'
    BY <1>1 DEF Inv, Typed
  <2> HIDE DEF t
  <2>2. tokens \subseteq tokens' /\ \A x \in tokens' \ tokens : x = t
    BY <1>1
  <2> QED
    BY <1>1, <1>2, <1>3, <2>1, <2>2, OthersKeep DEF t
<1>4. CASE v = w
  <2>1. Kept(v) /\ Doomed(v) /\ worker[v].i \in 0..(Total - 1) /\ Total \in Nat
    BY Numbers DEF Inv, Typed
  <2>2. CASE ~Succeeds
    BY <1>1, <1>2, <1>4, <2>1, <2>2 DEF Kept, Doomed
  <2>3. CASE Succeeds
    <3>1. \A j \in 0..(worker'[w].i - 1) : worker'[w].pc = "tokens" =>
            j \in 0..(worker[w].i - 1) \/ j = worker[w].i
      BY <1>1, <1>2, <1>4, <2>1, <2>3
    <3>2. \A j \in 0..(Total - 1) : worker'[w].pc = "select" =>
            j \in 0..(worker[w].i - 1) \/ j = worker[w].i
      BY <1>1, <1>2, <1>4, <2>1, <2>3
    <3>3. \A j : tok(w, j) \in tokens \/ j = worker[w].i => tok(w, j) \in tokens'
      BY <1>1, <2>3
    <3>4. Kept(v)'
      <4> HIDE DEF tok
      <4>1. worker'[w].pc \in {"tokens", "select"}
        BY <1>1, <1>2, <2>3
      <4>2. disturbed[w] = {} => serial > Total /\ \A j \in 0..(worker[w].i - 1) : tok(w, j) \in tokens
        BY <1>1, <1>4, <2>1 DEF Kept
      <4> QED
        BY <1>1, <1>4, <3>1, <3>2, <3>3, <4>1, <4>2 DEF Kept
    <3>5. t.token = <<w, worker[w].i>>
      BY DEF tok
    <3>6. Doomed(v)'
      <4> HIDE DEF t
      <4>1. ASSUME "tokens" \in disturbed[w]
            PROVE  worker[w].i > 0 /\ \A x \in tokens' : x.token # <<w, 0>>
        BY <1>1, <1>4, <2>1, <2>3, <3>5, <4>1 DEF Doomed
      <4> QED
        BY <1>1, <1>2, <1>4, <2>1, <2>3, <4>1 DEF Doomed
    <3> QED
      BY <3>4, <3>6
  <2> QED
    BY <2>2, <2>3
<1> QED
  BY <1>3, <1>4

LEMMA InvSelectToken ==
  ASSUME Inv, NEW w \in Workers, selectToken(w), NEW v \in Workers
  PROVE  Kept(v)' /\ Doomed(v)'
<1> DEFINE Hit == Cardinality(Found(w)) = 1
<1>1. /\ worker[w].pc = "select" /\ serial' = serial /\ disturbed' = disturbed
      /\ tokens' = tokens
  BY DEF selectToken
<1>2. /\ \A x \in Workers \ {w} : worker'[x] = worker[x]
      /\ ~Hit => worker'[w].pc = "threw"
      /\ Hit => IF worker[w].i + 1 = Total
                THEN worker'[w].pc = "ended" /\ worker'[w].i = 0
                ELSE worker'[w].pc = worker[w].pc /\ worker'[w].i = worker[w].i + 1
  BY Turned, Threw DEF selectToken, Pcs, InUse
<1>3. CASE v # w
  <2>1. serial \in Nat /\ serial <= serial'
    BY <1>1 DEF Inv, Typed
  <2> QED
    BY <1>1, <1>2, <1>3, <2>1, OthersKeep
<1>4. CASE v = w
  <2>1. Kept(v) /\ Doomed(v)
    BY DEF Inv
  <2>2. "tokens" \in disturbed[w] => ~Hit
    BY <1>1, <1>4, <2>1, FoundNone DEF Doomed
  <2> HIDE DEF Hit
  <2>3. Kept(v)'
    BY <1>1, <1>2, <1>4, <2>1 DEF Kept
  <2>4. Doomed(v)'
    BY <1>1, <1>2, <1>4, <2>2 DEF Doomed
  <2> QED
    BY <2>3, <2>4
<1> QED
  BY <1>3, <1>4

LEMMA InvConnectionLost ==
  ASSUME Inv, NEW w \in Workers, ConnectionLost(w), NEW v \in Workers
  PROVE  Kept(v)' /\ Doomed(v)'
<1>1. serial' = serial /\ disturbed' = disturbed /\ tokens' = tokens
      /\ worker[w].pc \in InUse \cup {"start"}
  BY DEF ConnectionLost
<1>2. worker'[w].pc = "threw" /\ \A x \in Workers \ {w} : worker'[x] = worker[x]
  BY Threw DEF ConnectionLost
<1>3. CASE v # w
  <2>1. serial \in Nat /\ serial <= serial'
    BY <1>1 DEF Inv, Typed
  <2> QED
    BY <1>1, <1>2, <1>3, <2>1, OthersKeep
<1>4. CASE v = w
  BY <1>1, <1>2, <1>4 DEF Kept, Doomed
<1> QED
  BY <1>3, <1>4

-----------------------------------------------------------------------------
\* A turn fails only in a worker that was disturbed: an undisturbed one finds
\* the user its token names, and the token it looks up unless it has expired.
LEMMA InsertTokenFails ==
  ASSUME Inv, NEW w \in Workers, insertToken(w), worker'[w].pc = "threw"
  PROVE  disturbed[w] # {}
<1>1. worker[w].pc = "tokens" /\ worker[w].i \in Nat /\ Kept(w)
  <2>1. worker[w].pc = "tokens"
    BY DEF insertToken
  <2>2. worker[w].i \in Nat /\ Kept(w)
    BY Numbers DEF Inv, Typed
  <2> QED
    BY <2>1, <2>2
<1>2. userOf(worker[w].i) \notin users
  <2>1. SUFFICES ASSUME userOf(worker[w].i) \in users PROVE FALSE
    OBVIOUS
  <2>2. Turn(w, "select", "") /\ "select" \in Pcs
    BY <2>1 DEF insertToken, Pcs, InUse
  <2>3. worker'[w].pc \in {"select", "tokens"}
    BY <1>1, <2>2, Turned
  <2> QED
    BY <2>3
<1>3. userOf(worker[w].i) \in 1..N /\ Total \in Nat /\ N <= Total /\ N \in Nat
  BY <1>1, Numbers, BaselineAssumption
<1>4. users = 1..(serial - 1) /\ serial \in Nat
  BY DEF Inv, Typed
<1>5. ~(serial > Total)
  BY <1>2, <1>3, <1>4
<1> QED
  BY <1>1, <1>5 DEF Kept

LEMMA SelectTokenFails ==
  ASSUME Inv, NEW w \in Workers, selectToken(w), worker'[w].pc = "threw"
  PROVE  disturbed[w] # {} \/ worker'[w].i < expired[w]
<1>1. worker[w].pc = "select" /\ worker[w].i \in 0..(Total - 1) /\ Kept(w)
  BY DEF selectToken, Inv, Typed
<1>2. Cardinality(Found(w)) # 1
  BY <1>1, Turned DEF selectToken, Pcs, InUse
<1>3. ~(serial > Total /\ tok(w, worker[w].i) \in tokens /\ worker[w].i >= expired[w])
  BY <1>2, FoundOne
<1>4. worker'[w].i = worker[w].i
  BY <1>2 DEF selectToken, Throw, Inv, Typed
<1>5. worker[w].i \in Nat /\ expired[w] \in Nat
  BY Numbers DEF Inv, Typed
<1> QED
  BY <1>1, <1>3, <1>4, <1>5 DEF Kept

\* A step of w: the others' records and what happened to them stay.
LEMMA CauseKept ==
  ASSUME Inv, NEW w \in Workers,
         \A v \in Workers \ {w} : worker'[v] = worker[v],
         \A v \in Workers : disturbed[v] \subseteq disturbed'[v],
         lost \subseteq lost', expired' = expired,
         worker'[w].pc = "threw" =>
           w \in lost' \/ disturbed[w] # {} \/ worker'[w].i < expired[w]
  PROVE  FailureHasACause'
<1> SUFFICES ASSUME NEW v \in Workers, worker'[v].pc = "threw"
             PROVE  v \in lost' \/ disturbed'[v] # {} \/ worker'[v].i < expired'[v]
  BY DEF FailureHasACause
<1>1. CASE v = w
  BY <1>1
<1>2. CASE v # w
  BY <1>2 DEF Inv, FailureHasACause
<1> QED
  BY <1>1, <1>2

LEMMA InvNext == Inv /\ [Next]_vars => Inv'
<1> SUFFICES ASSUME Inv, [Next]_vars PROVE Inv'
  OBVIOUS
<1>1. Typed' /\ TokensNamed'
  BY TypedNext
<1>2. CASE UNCHANGED vars
  BY <1>1, <1>2 DEF vars, Inv, Kept, Doomed, FailureHasACause
<1>3. ASSUME NEW w \in Workers, truncate(w) PROVE Inv'
  <2>1. worker' = [worker EXCEPT ![w].pc = "users"] /\ lost' = lost /\ expired' = expired
        /\ \A v \in Workers : disturbed[v] \subseteq disturbed'[v]
    BY <1>3 DEF truncate
  <2>2. worker'[w].pc = "users" /\ \A v \in Workers \ {w} : worker'[v] = worker[v]
    BY <2>1 DEF Inv, Typed
  <2>3. FailureHasACause'
    BY <2>1, <2>2, CauseKept
  <2> QED
    BY <1>1, <1>3, <2>3, InvTruncate DEF Inv
<1>4. ASSUME NEW w \in Workers, insertUser(w) PROVE Inv'
  <2>1. /\ \A v \in Workers \ {w} : worker'[v] = worker[v]
        /\ worker'[w].pc \in {"users", "tokens"}
        /\ disturbed' = disturbed /\ lost' = lost /\ expired' = expired
    BY <1>4, Turned DEF insertUser, Pcs, InUse
  <2>2. FailureHasACause'
    BY <2>1, CauseKept
  <2> QED
    BY <1>1, <1>4, <2>2, InvInsertUser DEF Inv
<1>5. ASSUME NEW w \in Workers, insertToken(w) PROVE Inv'
  <2>1. /\ \A v \in Workers \ {w} : worker'[v] = worker[v]
        /\ disturbed' = disturbed /\ lost' = lost /\ expired' = expired
    BY <1>5, Turned, Threw DEF insertToken, Pcs, InUse
  <2>2. FailureHasACause'
    BY <1>5, <2>1, CauseKept, InsertTokenFails
  <2> QED
    BY <1>1, <1>5, <2>2, InvInsertToken DEF Inv
<1>6. ASSUME NEW w \in Workers, selectToken(w) PROVE Inv'
  <2>1. /\ \A v \in Workers \ {w} : worker'[v] = worker[v]
        /\ disturbed' = disturbed /\ lost' = lost /\ expired' = expired
    BY <1>6, Turned, Threw DEF selectToken, Pcs, InUse
  <2>2. FailureHasACause'
    BY <1>6, <2>1, CauseKept, SelectTokenFails
  <2> QED
    BY <1>1, <1>6, <2>2, InvSelectToken DEF Inv
<1>7. ASSUME NEW w \in Workers, ConnectionLost(w) PROVE Inv'
  <2>1. /\ \A v \in Workers \ {w} : worker'[v] = worker[v]
        /\ disturbed' = disturbed /\ lost' = lost \cup {w} /\ expired' = expired
    BY <1>7, Threw DEF ConnectionLost
  <2>2. FailureHasACause'
    BY <2>1, CauseKept
  <2> QED
    BY <1>1, <1>7, <2>2, InvConnectionLost DEF Inv
<1>8. ASSUME NEW w \in Workers, TokenExpires(w) PROVE Inv'
  <2>1. \A v \in Workers : Kept(v)' /\ Doomed(v)'
    BY <1>8 DEF TokenExpires, Inv, Kept, Doomed
  <2>2. worker' = worker /\ lost' = lost /\ disturbed' = disturbed
        /\ expired' = [expired EXCEPT ![w] = @ + 1]
    BY <1>8 DEF TokenExpires
  <2>3. ASSUME NEW v \in Workers PROVE worker[v].i < expired[v] => worker[v].i < expired'[v]
    <3>1. worker[v].i \in Nat /\ expired[v] \in Nat
      BY Numbers DEF Inv, Typed
    <3>2. expired'[v] = expired[v] \/ expired'[v] = expired[v] + 1
      BY <2>2 DEF Inv, Typed
    <3> QED
      BY <3>1, <3>2
  <2>4. FailureHasACause'
    BY <2>2, <2>3 DEF Inv, FailureHasACause
  <2> QED
    BY <1>1, <2>1, <2>4 DEF Inv
<1> QED
  BY <1>2, <1>3, <1>4, <1>5, <1>6, <1>7, <1>8 DEF Next

LEMMA SpecInv == Spec => []Inv
BY InvInit, InvNext, PTL DEF Spec

\* baseline_worker.ts:193-203: a worker that publishes its look-up times looked
\* up tokens nobody emptied in between, whatever the number of workers, samples
\* and warm-up turns: the first token, or the one it is at, is missed.
THEOREM PublishedLookups == Spec => []PublishedLookupsAreUndisturbed
<1>1. Inv => PublishedLookupsAreUndisturbed
  BY DEF Inv, Doomed, PublishedLookupsAreUndisturbed
<1> QED
  BY SpecInv, <1>1, PTL

\* baseline_worker.ts:181-188 and 197-201: only a lost connection, another
\* worker's TRUNCATE or a token looked up an hour after it was issued makes a
\* worker fail: the users' serial numbers reach every index, and the index of
\* every look-up is that of a token.
THEOREM FailuresHaveACause == Spec => []FailureHasACause
<1>1. Inv => FailureHasACause
  BY DEF Inv
<1> QED
  BY SpecInv, <1>1, PTL

-----------------------------------------------------------------------------
(* The samples: a loop is timed after its warm-up turns only.              *)
Timed(i) == IF i < WARMUP THEN 0 ELSE i - WARMUP

Counted(w) ==
  /\ worker[w].inserts <= N /\ worker[w].selects <= N
  /\ worker[w].pc \in {"start", "users"} => worker[w].inserts = Timed(worker[w].i)
  /\ worker[w].pc \in {"tokens", "select", "ended"} => worker[w].inserts = N
  /\ worker[w].pc \in {"start", "users", "tokens"} => worker[w].selects = 0
  /\ worker[w].pc = "select" => worker[w].selects = Timed(worker[w].i)
  /\ worker[w].pc = "ended" => worker[w].selects = N

UsersExist == \A t \in tokens : t.user \in users

Counts == UsersExist /\ \A w \in Workers : Counted(w)

LEMMA TimedTurn ==
  ASSUME NEW i \in 0..(Total - 1)
  PROVE  /\ Timed(i) \in 0..(N - 1) /\ Timed(0) = 0
         /\ i + 1 # Total => Timed(i) + (IF i >= WARMUP THEN 1 ELSE 0) = Timed(i + 1)
         /\ i + 1 = Total => Timed(i) + (IF i >= WARMUP THEN 1 ELSE 0) = N
BY BaselineAssumption DEF Timed, Total

LEMMA CountsInit == Init => Counts
<1>1. Timed(0) = 0 /\ N \in Nat
  BY BaselineAssumption DEF Timed
<1> QED
  BY <1>1 DEF Init, Counts, UsersExist, Counted

\* The other workers count on.
LEMMA CountsKept ==
  ASSUME Inv, Counts, NEW w \in Workers,
         \A v \in Workers \ {w} : worker'[v] = worker[v],
         UsersExist', Counted(w)'
  PROVE  Counts'
<1>1. ASSUME NEW v \in Workers \ {w} PROVE Counted(v)'
  BY <1>1 DEF Counts, Counted
<1> QED
  BY <1>1 DEF Counts

LEMMA CountsNext == Inv /\ Counts /\ [Next]_vars => Counts'
<1> SUFFICES ASSUME Inv, Counts, [Next]_vars PROVE Counts'
  OBVIOUS
<1>1. CASE UNCHANGED vars
  BY <1>1 DEF vars, Counts, UsersExist, Counted
<1>2. ASSUME NEW w \in Workers, truncate(w) PROVE Counts'
  <2>1. /\ \A v \in Workers \ {w} : worker'[v] = worker[v]
        /\ worker[w].pc = "start" /\ worker'[w].pc = "users" /\ worker'[w].i = worker[w].i
        /\ worker'[w].inserts = worker[w].inserts /\ worker'[w].selects = worker[w].selects
        /\ tokens' = {}
    BY <1>2 DEF truncate, Inv, Typed
  <2>2. UsersExist' /\ Counted(w)'
    BY <2>1 DEF Counts, UsersExist, Counted
  <2> QED
    BY <2>1, <2>2, CountsKept
<1>3. ASSUME NEW w \in Workers, insertUser(w) PROVE Counts'
  <2>1. /\ worker[w].pc = "users" /\ Turn(w, "tokens", "inserts") /\ tokens' = tokens
        /\ users \subseteq users'
    BY <1>3 DEF insertUser
  <2>2. worker[w].i \in 0..(Total - 1) /\ worker[w].selects \in Nat /\ N \in Nat
    BY BaselineAssumption DEF Inv, Typed
  <2>3. UsersExist'
    BY <2>1 DEF Counts, UsersExist
  <2>4. Counted(w)'
    BY <2>1, <2>2, Turned, TimedTurn DEF Counts, Counted, Pcs, InUse
  <2> QED
    BY <2>1, <2>3, <2>4, CountsKept, Turned DEF Pcs, InUse
<1>4. ASSUME NEW w \in Workers, insertToken(w) PROVE Counts'
  <2>1. /\ worker[w].pc = "tokens" /\ users' = users
        /\ \/ Turn(w, "select", "")
           \/ Throw(w)
    BY <1>4 DEF insertToken
  <2>2. worker[w].i \in 0..(Total - 1) /\ worker[w].selects \in Nat
          /\ worker[w].inserts \in Nat /\ N \in Nat
    BY BaselineAssumption DEF Inv, Typed
  <2>3. UsersExist'
    <3>1. ASSUME NEW t \in tokens' PROVE t.user \in users
      <4>1. \/ tokens' = tokens
            \/ /\ userOf(worker[w].i) \in users
               /\ tokens' = tokens \cup {tok(w, worker[w].i)}
        BY <1>4 DEF insertToken, tok
      <4>2. tok(w, worker[w].i).user = userOf(worker[w].i)
        BY DEF tok
      <4>3. t \in tokens \/ (t = tok(w, worker[w].i) /\ userOf(worker[w].i) \in users)
        BY <4>1
      <4> QED
        BY <4>2, <4>3 DEF Counts, UsersExist
    <3> QED
      BY <2>1, <3>1 DEF UsersExist
  <2>4. CASE Turn(w, "select", "")
    <3> DEFINE last == worker[w].i + 1 = Total
    <3>0. /\ worker'[w].inserts = worker[w].inserts /\ worker'[w].selects = worker[w].selects
          /\ last => worker'[w].pc = "select" /\ worker'[w].i = 0
          /\ ~last => worker'[w].pc = "tokens"
      <4>1. "select" \in Pcs
        BY DEF Pcs, InUse
      <4>2. /\ worker'[w].inserts = worker[w].inserts
                  + (IF "" = "inserts" /\ worker[w].i >= WARMUP THEN 1 ELSE 0)
            /\ worker'[w].selects = worker[w].selects
                  + (IF "" = "selects" /\ worker[w].i >= WARMUP THEN 1 ELSE 0)
            /\ IF last THEN worker'[w].pc = "select" /\ worker'[w].i = 0
                       ELSE worker'[w].pc = worker[w].pc /\ worker'[w].i = worker[w].i + 1
        BY <2>4, <4>1, Turned
      <4>3. "" # "inserts" /\ "" # "selects"
        OBVIOUS
      <4>4. worker'[w].inserts = worker[w].inserts /\ worker'[w].selects = worker[w].selects
        BY <2>2, <4>2, <4>3
      <4> QED
        BY <2>1, <4>2, <4>4
    <3>1. Counted(w)'
      <4>1. worker[w].inserts = N /\ worker[w].selects = 0 /\ Timed(0) = 0
        BY <2>1, <2>2, TimedTurn DEF Counts, Counted
      <4> HIDE DEF last
      <4> QED
        BY <2>2, <3>0, <4>1 DEF Counts, Counted
    <3> QED
      BY <2>3, <2>4, <3>1, CountsKept, Turned DEF Pcs, InUse
  <2>5. CASE Throw(w)
    <3>1. Counted(w)'
      BY <2>5, Threw DEF Counts, Counted
    <3> QED
      BY <2>3, <2>5, <3>1, CountsKept, Threw
  <2> QED
    BY <2>1, <2>4, <2>5
<1>5. ASSUME NEW w \in Workers, selectToken(w) PROVE Counts'
  <2>1. /\ worker[w].pc = "select"
        /\ \/ Turn(w, "ended", "selects")
           \/ Throw(w)
    BY <1>5 DEF selectToken
  <2>2. worker[w].i \in 0..(Total - 1) /\ worker[w].inserts \in Nat /\ N \in Nat
    BY BaselineAssumption DEF Inv, Typed
  <2>3. UsersExist'
    BY <1>5 DEF selectToken, Counts, UsersExist
  <2>4. CASE Turn(w, "ended", "selects")
    <3>1. Counted(w)'
      BY <2>1, <2>2, <2>4, Turned, TimedTurn DEF Counts, Counted, Pcs, InUse
    <3> QED
      BY <2>3, <2>4, <3>1, CountsKept, Turned DEF Pcs, InUse
  <2>5. CASE Throw(w)
    <3>1. Counted(w)'
      BY <2>5, Threw DEF Counts, Counted
    <3> QED
      BY <2>3, <2>5, <3>1, CountsKept, Threw
  <2> QED
    BY <2>1, <2>4, <2>5
<1>6. ASSUME NEW w \in Workers, ConnectionLost(w) PROVE Counts'
  <2>1. Throw(w) /\ UsersExist'
    BY <1>6 DEF ConnectionLost, Counts, UsersExist
  <2>2. Counted(w)'
    BY <2>1, Threw DEF Counts, Counted
  <2> QED
    BY <2>1, <2>2, CountsKept, Threw
<1>7. ASSUME NEW w \in Workers, TokenExpires(w) PROVE Counts'
  BY <1>7 DEF TokenExpires, Counts, UsersExist, Counted
<1> QED
  BY <1>1, <1>2, <1>3, <1>4, <1>5, <1>6, <1>7 DEF Next

LEMMA CountsTypes == Inv /\ Counts => TypeOK
<1> SUFFICES ASSUME Inv, Counts PROVE TypeOK
  OBVIOUS
<1>1. users = 1..(serial - 1)
  BY DEF Inv, Typed
<1>2. ASSUME NEW w \in Workers
      PROVE  /\ worker[w].pc \in InUse \cup {"start", "ended", "threw"}
             /\ worker[w].i \in 0..(Total - 1)
             /\ expired[w] \in 0..Total
    BY DEF Inv, Typed, Pcs
<1>3. ASSUME NEW w \in Workers
      PROVE  /\ worker[w].inserts <= N /\ worker[w].selects <= N
             /\ worker[w].pc = "ended" => worker[w].inserts = N /\ worker[w].selects = N
    BY DEF Counts, Counted
<1> QED
  BY <1>1, <1>2, <1>3 DEF TypeOK, Counts, UsersExist

\* baseline_worker.ts:179-203: the keys of the tables, and N samples of each
\* loop in every worker that ended, whatever the number of warm-up turns.
THEOREM BaselineTypes == Spec => []TypeOK
<1>1. Inv /\ Counts /\ [Next]_vars => Inv' /\ Counts'
  BY InvNext, CountsNext
<1> QED
  BY InvInit, CountsInit, CountsTypes, <1>1, PTL DEF Spec

-----------------------------------------------------------------------------
(* A step of the whole is a step of one component and a stutter of the     *)
(* others.                                                                 *)
LEMMA OneComponentMoves ==
  ASSUME [ServicesNext]_allVars
  PROVE  /\ subject' = subject
         /\ [Next]_vars
         /\ LC!Next \/ UNCHANGED lcVars
         /\ LN!Next \/ UNCHANGED lnVars
         /\ GM!Next \/ UNCHANGED gmVars
         /\ RT!Next \/ UNCHANGED rtVars
<1>1. CASE UNCHANGED allVars
  BY <1>1 DEF allVars, lcVars, lnVars, gmVars, rtVars, vars
<1>2. CASE Baseline
  BY <1>2 DEF Baseline, Runs, lcVars, lnVars, gmVars, rtVars
<1>3. CASE Ledger
  BY <1>3 DEF Ledger, Runs, vars, lnVars, gmVars, rtVars
<1>4. CASE Node
  BY <1>4 DEF Node, Runs, vars, lcVars, gmVars, rtVars
<1>5. CASE Gas
  BY <1>5 DEF Gas, Runs, vars, lcVars, lnVars, rtVars
<1>6. CASE Tree
  BY <1>6 DEF Tree, Runs, vars, lcVars, lnVars, gmVars
<1> QED
  BY <1>1, <1>2, <1>3, <1>4, <1>5, <1>6 DEF ServicesNext

-----------------------------------------------------------------------------
(* LocalNode: with the types of its functions the property is inductive;   *)
(* that the port is a running node's needs what an idle run has not done.  *)
NodeInv ==
  /\ LN!TypeOK
  /\ \A r \in NodeRuns : lnRun[r] = "idle" => lnNode[r] = "none"
  /\ LN!NoNodeIsLeft

LEMMA NodeInit == LN!Init => NodeInv
BY ServicesAssumption DEF LN!Init, NodeInv, LN!TypeOK, LN!Ended, LN!NoNodeIsLeft

\* One step of each action for one run.
LEMMA NodeNext == NodeInv /\ (LN!Next \/ UNCHANGED lnVars) => NodeInv'
<1> SUFFICES ASSUME NodeInv, LN!Next \/ UNCHANGED lnVars PROVE NodeInv'
  OBVIOUS
<1> USE DEF NodeInv, LN!TypeOK, LN!NoNodeIsLeft, LN!Ended
<1>1. CASE UNCHANGED lnVars
  BY <1>1 DEF lnVars
<1>2. ASSUME NEW r \in NodeRuns, LN!spawn(r) PROVE NodeInv'
  BY <1>2 DEF LN!spawn, LN!Goto
<1>3. ASSUME NEW r \in NodeRuns, LN!Bind(r) PROVE NodeInv'
  BY <1>3 DEF LN!Bind
<1>4. ASSUME NEW r \in NodeRuns, LN!Answered(r) PROVE NodeInv'
  BY <1>4 DEF LN!Answered, LN!Goto
<1>5. ASSUME NEW r \in NodeRuns, LN!Retry(r) PROVE NodeInv'
  <2>1. CASE lnPolls[r] = Deadline
    BY <1>5, <2>1 DEF LN!Retry, LN!Goto, LN!stop
  <2>2. CASE lnPolls[r] # Deadline
    <3>1. lnPolls' = [lnPolls EXCEPT ![r] = @ + 1] /\ lnPolls[r] + 1 \in 0..Deadline
      BY <1>5, <2>2, ServicesAssumption DEF LN!Retry
    <3> QED
      BY <1>5, <2>2, <3>1 DEF LN!Retry
  <2> QED
    BY <2>1, <2>2
<1>6. ASSUME NEW r \in NodeRuns, LN!Finish(r) PROVE NodeInv'
  BY <1>6 DEF LN!Finish, LN!Goto, LN!stop
<1>7. ASSUME NEW r \in NodeRuns, LN!Kill(r) PROVE NodeInv'
  BY <1>7 DEF LN!Kill, LN!Goto
<1>8. ASSUME NEW r \in NodeRuns, LN!Reap(r) PROVE NodeInv'
  BY <1>8 DEF LN!Reap, LN!stop
<1> QED
  BY <1>1, <1>2, <1>3, <1>4, <1>5, <1>6, <1>7, <1>8 DEF LN!Next, LN!Step

LEMMA NodeAlways == ServicesSpec => []NodeInv
<1>1. ServicesInit => NodeInv
  BY NodeInit DEF ServicesInit
<1>2. NodeInv /\ [ServicesNext]_allVars => NodeInv'
  BY NodeNext, OneComponentMoves
<1> QED
  BY <1>1, <1>2, PTL DEF ServicesSpec

\* evm.ts:45 and e2e_core.ts:247-250: a run that ends by itself leaves no
\* node process behind, whatever the other runs on the port do.
THEOREM NodesStopped == ServicesSpec => []NoNodeIsLeft
<1>1. NodeInv => NoNodeIsLeft
  BY DEF NodeInv, NoNodeIsLeft
<1> QED
  BY NodeAlways, <1>1, PTL

-----------------------------------------------------------------------------
(* GasMeasurement: where the measurement is, and what it has seen by then. *)
\* Past the static call, and past the call with a corrupted signal.
Seen(p) == gmPc \in p
Paid == gmDirect = Intrinsic + GM!verifyProof(GM!ForDirect).used

GasInv ==
  /\ gmNeed \in VerifierNeeds /\ gmValid \in BOOLEAN /\ gmSound \in BOOLEAN
  /\ gmPc \in {"prove", "start", "deploy", "static", "corrupted", "direct", "probe",
               "confirm", "publish", "done", "failed"}
  /\ Seen({"corrupted", "direct", "probe", "confirm", "publish"}) => gmValid
  /\ Seen({"direct", "probe", "confirm", "publish"}) => gmSound
  /\ Seen({"probe", "confirm", "publish"}) => Paid
  /\ Seen({"confirm"}) => gmLastResult = GM!verifyProof(GM!ForProbe).ok
  /\ Seen({"publish"}) => GM!verifyProof(GM!ForProbe).ok
  /\ GM!PublishedGasVerified

\* The probe hands on less than the transaction itself has: what it verified
\* with, the direct transaction verified with too.
LEMMA ProbeHasLess ==
  ASSUME gmNeed \in VerifierNeeds, GM!verifyProof(GM!ForProbe).ok
  PROVE  GM!verifyProof(GM!ForDirect).used = gmNeed
<1> DEFINE left == GAS_LIMIT - Intrinsic
<1>1. left \in Nat /\ gmNeed \in Nat
  BY ServicesAssumption
<1>2. (left * 63) \div 64 <= left
  BY <1>1
<1>3. GM!ForProbe >= gmNeed /\ GM!ForProbe = (left * 63) \div 64 /\ GM!ForDirect = left
  BY DEF GM!verifyProof, GM!ForProbe, GM!ForDirect, GM!directLimit
<1>4. ~(GM!ForDirect < gmNeed)
  BY <1>1, <1>2, <1>3
<1> QED
  BY <1>4 DEF GM!verifyProof

LEMMA GasNext == GasInv /\ (GM!Next \/ UNCHANGED gmVars) => GasInv'
<1> SUFFICES ASSUME GasInv, GM!Next \/ UNCHANGED gmVars PROVE GasInv'
  OBVIOUS
<1> USE DEF GasInv, Seen, Paid, GM!At, GM!Goto, GM!Exit, GM!constant, GM!PublishedGasVerified
<1>1. CASE UNCHANGED gmVars
  BY <1>1 DEF gmVars, GM!verifyProof
<1>2. CASE GM!proveFixture \/ GM!startAnvil \/ GM!deploy
  BY <1>2 DEF GM!proveFixture, GM!startAnvil, GM!deploy
<1>3. CASE GM!staticCall \/ GM!corruptedCall
  BY <1>3 DEF GM!staticCall, GM!corruptedCall
<1>4. CASE GM!directTx
  BY <1>4 DEF GM!directTx, GM!verifyProof
<1>5. CASE GM!probeTx
  BY <1>5 DEF GM!probeTx, GM!verifyProof
<1>6. CASE GM!confirm
  BY <1>6 DEF GM!confirm, GM!verifyProof
<1>7. CASE GM!publish
  <2>1. gmDirect = Intrinsic + gmNeed /\ gmValid /\ gmSound
    BY <1>7, ProbeHasLess DEF GM!publish
  <2> QED
    BY <1>7, <2>1 DEF GM!publish
<1> QED
  BY <1>1, <1>2, <1>3, <1>4, <1>5, <1>6, <1>7 DEF GM!Next

\* measure_gas.ts:98-123: gas is published only of a verification that
\* answered true, though no receipt tells the answer.
THEOREM GasOfAVerification == ServicesSpec => []PublishedGasVerified
<1>1. ServicesInit => GasInv
  BY DEF ServicesInit, GM!Init, GasInv, Seen, GM!PublishedGasVerified
<1>2. GasInv /\ [ServicesNext]_allVars => GasInv'
  BY GasNext, OneComponentMoves
<1>3. GasInv => PublishedGasVerified
  BY DEF GasInv, PublishedGasVerified
<1> QED
  BY <1>1, <1>2, <1>3, PTL DEF ServicesSpec

-----------------------------------------------------------------------------
(* LedgerClient.                                                           *)
LedgerPlaces == LC!InFlight \cup {"idle", "settled", "rejected", "reverted"}

LedgerTypes ==
  /\ lcDelta \in Nat
  /\ DOMAIN lcChain = {"did", "accredited", "schema", "root", "count"}
  /\ lcChain.root \subseteq LedgerCalls /\ lcChain.count \in Nat
  /\ lcCall \in [LedgerCalls -> [pc : LedgerPlaces, method : LC!Methods, nonce : Nat,
                                 before : SUBSET LedgerCalls]]

\* A nonce under way was counted, and the chain is behind the counter.
NoncesCounted ==
  /\ 4 <= lcChain.count /\ lcChain.count <= lcDelta
  /\ \A c \in LedgerCalls :
       /\ lcCall[c].nonce = 0 \/ (4 <= lcCall[c].nonce /\ lcCall[c].nonce < lcDelta)
       /\ lcCall[c].pc \in {"counted", "sent"} => lcCall[c].nonce # 0

\* What had returned when a call was made has still returned.
BeforeHaveSettled ==
  \A c \in LedgerCalls, d \in LedgerCalls :
    d \in lcCall[c].before => lcCall[d].pc = "settled"

\* A publication is on chain from when it was mined.
MinedIsOnChain ==
  \A c \in LedgerCalls :
    lcCall[c].pc \in {"mined", "settled"} /\ lcCall[c].method = "publishRevRoot" =>
      \E d \in lcChain.root : d = c \/ d \notin lcCall[c].before

LedgerInv == LedgerTypes /\ NoncesCounted /\ BeforeHaveSettled /\ MinedIsOnChain

LEMMA LedgerInit == LC!Init => LedgerInv
BY DEF LC!Init, LC!deploy, LedgerInv, LedgerTypes, NoncesCounted, BeforeHaveSettled,
       MinedIsOnChain, LedgerPlaces, LC!Methods

LEMMA LedgerInvoke ==
  ASSUME LedgerInv, NEW c \in LedgerCalls, NEW m \in LC!Methods, LC!Invoke(c, m)
  PROVE  LedgerInv'
BY DEF LC!Invoke, LC!At, LedgerInv, LedgerTypes, NoncesCounted, BeforeHaveSettled,
       MinedIsOnChain, LedgerPlaces, LC!InFlight

LEMMA LedgerGetNonce ==
  ASSUME LedgerInv, NEW c \in LedgerCalls, LC!getNonce(c)
  PROVE  LedgerInv'
BY DEF LC!getNonce, LC!At, LedgerInv, LedgerTypes, NoncesCounted, BeforeHaveSettled,
       MinedIsOnChain, LedgerPlaces, LC!InFlight

\* A call that moves on: nothing but its place changes.
Moved(c, pc) ==
  /\ lcCall' \in [LedgerCalls -> [pc : LedgerPlaces, method : LC!Methods, nonce : Nat,
                                  before : SUBSET LedgerCalls]]
  /\ \A d \in LedgerCalls :
       /\ lcCall'[d].pc = IF d = c THEN pc ELSE lcCall[d].pc
       /\ lcCall'[d].method = lcCall[d].method
       /\ lcCall'[d].nonce = lcCall[d].nonce
       /\ lcCall'[d].before = lcCall[d].before

LEMMA LedgerGoto ==
  ASSUME LedgerInv, NEW c \in LedgerCalls, NEW pc \in LedgerPlaces, LC!Goto(c, pc)
  PROVE  Moved(c, pc)
BY DEF LedgerInv, LedgerTypes, LC!Goto, Moved

LEMMA LedgerSend ==
  ASSUME LedgerInv, NEW c \in LedgerCalls, LC!sendTransaction(c) \/ LC!wait(c)
  PROVE  LedgerInv'
<1>1. \E pc \in {"sent", "rejected", "settled"} :
        /\ LC!Goto(c, pc)
        /\ lcCall[c].pc = (IF pc = "settled" THEN "mined" ELSE "counted")
        /\ UNCHANGED <<lcChain, lcDelta>>
  BY DEF LC!sendTransaction, LC!wait, LC!At
<1>2. PICK pc \in {"sent", "rejected", "settled"} :
        /\ LC!Goto(c, pc)
        /\ lcCall[c].pc = (IF pc = "settled" THEN "mined" ELSE "counted")
        /\ UNCHANGED <<lcChain, lcDelta>>
  BY <1>1
<1>3. Moved(c, pc)
  BY <1>2, LedgerGoto DEF LedgerPlaces, LC!InFlight
<1>4. LedgerTypes' /\ NoncesCounted'
  BY <1>2, <1>3 DEF LedgerInv, LedgerTypes, NoncesCounted, Moved
<1>5. BeforeHaveSettled' /\ MinedIsOnChain'
  BY <1>2, <1>3, ZenonT(60) DEF LedgerInv, LedgerTypes, BeforeHaveSettled, MinedIsOnChain, Moved
<1> QED
  BY <1>4, <1>5 DEF LedgerInv

LEMMA LedgerMine ==
  ASSUME LedgerInv, NEW c \in LedgerCalls, LC!mine(c)
  PROVE  LedgerInv'
<1>1. /\ lcCall[c].pc = "sent" /\ lcCall[c].nonce = lcChain.count /\ lcDelta' = lcDelta
      /\ lcChain.count + 1 <= lcDelta
  BY DEF LC!mine, LC!At, LedgerInv, LedgerTypes, NoncesCounted
<1>2. /\ DOMAIN lcChain' = DOMAIN lcChain /\ lcChain'.count = lcChain.count + 1
      /\ \/ LC!Goto(c, "reverted") /\ lcChain'.root = lcChain.root
         \/ /\ LC!Goto(c, "mined")
            /\ lcChain'.root = IF lcCall[c].method = "publishRevRoot" THEN {c}
                               ELSE lcChain.root
  <2>1. CASE LC!Reverts(c)
    BY <2>1 DEF LC!mine, LedgerInv, LedgerTypes
  <2>2. CASE ~LC!Reverts(c)
    BY <2>2 DEF LC!mine, LedgerInv, LedgerTypes
  <2> QED
    BY <2>1, <2>2
<1>3. \A d \in LedgerCalls : c \notin lcCall[d].before
  BY <1>1 DEF LedgerInv, BeforeHaveSettled
<1>5. PICK pc \in {"reverted", "mined"} :
        /\ LC!Goto(c, pc)
        /\ \/ lcChain'.root = lcChain.root
           \/ lcChain'.root = {c}
        /\ pc = "mined" /\ lcCall[c].method = "publishRevRoot" => lcChain'.root = {c}
  BY <1>2
<1>6. Moved(c, pc)
  BY <1>5, LedgerGoto DEF LedgerPlaces, LC!InFlight
<1>7. LedgerTypes' /\ NoncesCounted'
  BY <1>1, <1>2, <1>5, <1>6 DEF LedgerInv, LedgerTypes, NoncesCounted, Moved
<1>8. BeforeHaveSettled'
  BY <1>1, <1>6 DEF LedgerInv, LedgerTypes, BeforeHaveSettled, Moved
<1>9. MinedIsOnChain'
  BY <1>1, <1>3, <1>5, <1>6 DEF LedgerInv, LedgerTypes, MinedIsOnChain, Moved
<1> QED
  BY <1>7, <1>8, <1>9 DEF LedgerInv

LEMMA LedgerNext == LedgerInv /\ (LC!Next \/ UNCHANGED lcVars) => LedgerInv'
<1>1. ASSUME LedgerInv, UNCHANGED lcVars PROVE LedgerInv'
  BY <1>1 DEF lcVars, LedgerInv, LedgerTypes, NoncesCounted, BeforeHaveSettled, MinedIsOnChain
<1>2. ASSUME LedgerInv, LC!Next PROVE LedgerInv'
  BY <1>2, LedgerInvoke, LedgerGetNonce, LedgerSend, LedgerMine
     DEF LC!Next, LC!Progress, LC!registerDid, LC!accreditIssuer, LC!publishRevRoot,
         LC!registerSchema, LC!Methods
<1> QED
  BY <1>1, <1>2

LEMMA LedgerAlways == ServicesSpec => []LedgerInv
<1>1. ServicesInit => LedgerInv
  BY LedgerInit DEF ServicesInit
<1>2. LedgerInv /\ [ServicesNext]_allVars => LedgerInv'
  BY LedgerNext, OneComponentMoves
<1> QED
  BY <1>1, <1>2, PTL DEF ServicesSpec

\* ledger/src/index.ts:103-108: an awaited publication stays on chain, or
\* gives way to one that was not confirmed before it was made.
THEOREM ConfirmedRoots == ServicesSpec => []SettledIsOnChain
<1>1. LedgerInv => SettledIsOnChain
  BY DEF LedgerInv, MinedIsOnChain, SettledIsOnChain, LC!SettledIsOnChain, LC!At
<1> QED
  BY LedgerAlways, <1>1, PTL

-----------------------------------------------------------------------------
(* RevocationTree: the trie's paths.                                       *)

\* Induction over numbers, as far as it is needed here: intervals from 0 are
\* finite, and finite sets are well founded under inclusion.
LEMMA LeastNumber ==
  ASSUME NEW T \in SUBSET Nat, T # {}
  PROVE  \E n \in T : \A m \in T : n <= m
<1> DEFINE Initial == {0..n : n \in T}
<1>1. IsWellFoundedOn(StrictSubsetOrdering(Nat), FiniteSubsetsOf(Nat))
  BY FS_StrictSubsetOrderingWellFounded
<1>2. ASSUME NEW n \in T PROVE 0..n \in FiniteSubsetsOf(Nat)
  BY FS_Interval DEF FiniteSubsetsOf
<1>3. Initial \subseteq FiniteSubsetsOf(Nat) /\ Initial # {}
  BY <1>2
<1> HIDE DEF Initial
<1>4. PICK I \in Initial : \A J \in Initial : <<J, I>> \notin StrictSubsetOrdering(Nat)
  BY <1>1, <1>3, WFMin
<1>5. PICK n \in T : I = 0..n
  BY DEF Initial
<1>6. ASSUME NEW m \in T, m < n PROVE FALSE
  <2>1. 0..m \in Initial
    BY DEF Initial
  <2>2. 0..m \subseteq 0..n /\ n \notin 0..m /\ n \in 0..n
    BY <1>6
  <2>3. <<0..m, 0..n>> \in StrictSubsetOrdering(Nat)
    BY <2>2 DEF StrictSubsetOrdering
  <2> QED
    BY <1>4, <1>5, <2>1, <2>3
<1> QED
  BY <1>6

\* The module of finite sets is that of the component's instance, too.
LEMMA OneCardinality == \A S : RT!Cardinality(S) = Cardinality(S)
BY DEF RT!Cardinality, Cardinality, RT!IsFiniteSet, IsFiniteSet

\* A search ends at the first level with at most one key below it: at the
\* last, if not before.
LEMMA PathEnds ==
  ASSUME NEW S \in SUBSET SmtKeys, NEW k \in SmtKeys
  PROVE  RT!PathLength(S, k) \in 0..Len(k)
<1> DEFINE T == {d \in 0..Len(k) : Cardinality(RT!Under(S, k, d)) <= 1}
<1>1. k \in Seq({0, 1}) /\ Len(k) \in Nat
  BY ServicesAssumption
<1>2. ASSUME NEW s \in RT!Under(S, k, Len(k)) PROVE s = k
  <2>1. s \in Seq({0, 1}) /\ Len(s) = Len(k) /\ SubSeq(s, 1, Len(k)) = SubSeq(k, 1, Len(k))
    BY <1>2, ServicesAssumption DEF RT!Under
  <2>2. SubSeq(s, 1, Len(s)) = s /\ SubSeq(k, 1, Len(k)) = k
    BY <1>1, <2>1
  <2> QED
    BY <2>1, <2>2
<1>3. Cardinality(RT!Under(S, k, Len(k))) <= 1
  <2> DEFINE U == RT!Under(S, k, Len(k))
  <2>1. U \in SUBSET {k}
    BY <1>2
  <2> HIDE DEF U
  <2>2. IsFiniteSet({k}) /\ Cardinality({k}) = 1
    BY FS_Singleton
  <2>3. Cardinality(U) <= Cardinality({k})
    BY <2>1, <2>2, FS_Subset
  <2> QED
    BY <2>2, <2>3 DEF U
<1>4. T # {} /\ T \in SUBSET Nat
  BY <1>1, <1>3
<1>5. PICK d \in T : \A e \in T : d <= e
  BY <1>4, LeastNumber
<1>6. ASSUME NEW e \in 0..(d - 1) PROVE Cardinality(RT!Under(S, k, e)) > 1
  <2>1. e \notin T /\ e \in 0..Len(k)
    BY <1>1, <1>5, <1>6
  <2>2. Cardinality(RT!Under(S, k, e)) \in Nat
    <3>1. RT!Under(S, k, e) \subseteq SmtKeys
      BY DEF RT!Under
    <3> QED
      BY <3>1, ServicesAssumption, FS_Subset, FS_CardinalityType
  <2> QED
    BY <2>1, <2>2
<1> QED
  BY <1>5, <1>6, OneCardinality DEF RT!PathLength

\* The siblings of a path and what is below its end are the whole tree.
LEMMA PathCovers ==
  ASSUME NEW S \in SUBSET SmtKeys, NEW k \in SmtKeys, NEW d \in 0..Len(k),
         NEW s \in S, s \notin RT!Under(S, k, d)
  PROVE  \E i \in 1..d : s \in RT!Under(S, k, i - 1) \ RT!Under(S, k, i)
<1> DEFINE T == {i \in 0..d : s \notin RT!Under(S, k, i)}
<1>1. Len(k) \in Nat /\ k \in Seq({0, 1}) /\ s \in Seq({0, 1})
  BY ServicesAssumption
<1>2. T \in SUBSET Nat /\ d \in T
  BY <1>1
<1>3. PICK i \in T : \A j \in T : i <= j
  BY <1>2, LeastNumber
<1>4. i # 0
  <2>1. SubSeq(s, 1, 0) = SubSeq(k, 1, 0)
    BY <1>1
  <2> QED
    BY <1>3, <2>1 DEF RT!Under
<1>5. i - 1 \in 0..d /\ i - 1 \notin T /\ i \in 1..d
  BY <1>1, <1>3, <1>4
<1> QED
  BY <1>3, <1>5

\* What getNonMembershipProof returns for a key outside the tree opens the
\* tree, unless the path leaves the circuit no level to end with.
LEMMA OpeningExcludes ==
  ASSUME NEW S \in SUBSET SmtKeys, NEW k \in SmtKeys, k \notin S,
         NEW root,
         Len(RT!find(S, k).siblings) <= SMT_DEPTH,
         RT!PathLength(S, k) # SMT_DEPTH
  PROVE  RT!Excludes([siblings |-> RT!Padded(RT!find(S, k).siblings),
                      leaf |-> RT!find(S, k).leaf, root |-> root], k, S)
<1> DEFINE d == RT!PathLength(S, k)
           sib == [i \in 1..d |-> RT!Under(S, k, i - 1) \ RT!Under(S, k, i)]
           pad == [i \in 1..(SMT_DEPTH - d) |-> {}]
<1>1. d \in 0..Len(k) /\ Len(k) \in Nat /\ SMT_DEPTH \in Nat \ {0}
  BY PathEnds, ServicesAssumption
<1>2. RT!find(S, k).siblings = sib /\ RT!find(S, k).leaf = RT!Under(S, k, d)
  BY DEF RT!find
<1> HIDE DEF d
<1>3. sib \in Seq(SUBSET SmtKeys) /\ Len(sib) = d
  <2>1. \A i \in 1..d : sib[i] \in SUBSET SmtKeys
    BY DEF RT!Under
  <2> QED
    BY <1>1, <2>1
<1>4. SMT_DEPTH - d \in Nat /\ SMT_DEPTH - d # 0
  BY <1>1, <1>2, <1>3 DEF d
<1>5. pad \in Seq(SUBSET SmtKeys) /\ Len(pad) = SMT_DEPTH - d
  BY <1>4
<1>6. RT!Padded(sib) = sib \o pad
  BY <1>3 DEF RT!Padded
<1> DEFINE all == sib \o pad
<1>7. /\ all \in Seq(SUBSET SmtKeys) /\ Len(all) = SMT_DEPTH
      /\ \A i \in 1..d : all[i] = sib[i]
      /\ \A i \in (d + 1)..SMT_DEPTH : all[i] = {}
  BY <1>1, <1>3, <1>4, <1>5
<1>8. all[Len(all)] = {}
  BY <1>1, <1>4, <1>7
<1>9. RT!Under(S, k, d) \cup UNION {all[i] : i \in DOMAIN all} = S
  <2>1. ASSUME NEW s \in S, s \notin RT!Under(S, k, d)
        PROVE  \E i \in DOMAIN all : s \in all[i]
    <3>1. PICK i \in 1..d : s \in RT!Under(S, k, i - 1) \ RT!Under(S, k, i)
      BY <1>1, <2>1, PathCovers
    <3>2. i \in DOMAIN all /\ all[i] = RT!Under(S, k, i - 1) \ RT!Under(S, k, i)
      BY <1>1, <1>4, <1>7
    <3> QED
      BY <3>1, <3>2
  <2>2. ASSUME NEW i \in DOMAIN all, NEW s \in all[i] PROVE s \in S
    BY <1>1, <1>4, <1>7, <2>2 DEF RT!Under
  <2>3. RT!Under(S, k, d) \subseteq S
    BY DEF RT!Under
  <2> QED
    BY <2>1, <2>2, <2>3
<1>10. k \notin RT!Under(S, k, d)
  BY DEF RT!Under
<1> HIDE DEF all, sib, pad
<1>11. RT!Padded(RT!find(S, k).siblings) = all
  BY <1>2, <1>6 DEF all
<1> QED
  BY <1>2, <1>7, <1>8, <1>9, <1>10, <1>11 DEF RT!Excludes, RT!Last, RT!ToSet

-----------------------------------------------------------------------------
(* RevocationTree: the calls.                                              *)
TreePlaces == RT!InFlight \cup {"idle", "settled", "rejected"}
TreeFields == {"pc", "method", "key", "res", "ret", "during", "before"}

TreeTypes ==
  /\ rtKeys \in SUBSET SmtKeys
  /\ DOMAIN rtCall = TreeCalls
  /\ \A c \in TreeCalls :
       /\ DOMAIN rtCall[c] = TreeFields
       /\ rtCall[c].pc \in TreePlaces /\ rtCall[c].method \in RT!Methods
       /\ rtCall[c].key \in SmtKeys
       /\ rtCall[c].during \in SUBSET (SUBSET SmtKeys)
       /\ rtCall[c].before \in SUBSET TreeCalls

\* The answer of a call that has returned.
Answered(c) ==
  /\ rtCall[c].method = "isRevoked" =>
       \E R \in rtCall[c].during : rtCall[c].ret[1] <=> rtCall[c].key \in R
  /\ rtCall[c].method = "getNonMembershipProof" =>
       \E R \in rtCall[c].during :
         \/ RT!Excludes(rtCall[c].ret[1], rtCall[c].key, R)
         \/ rtCall[c].key \notin R /\ RT!PathLength(R, rtCall[c].key) = SMT_DEPTH

\* What a call knows at each await: a search answered for a tree of the call,
\* and an insertion is of a key that was not revoked then.
Knows(c) ==
  /\ rtCall[c].pc \in {"called", "found", "inserting"} => rtKeys \in rtCall[c].during
  /\ rtCall[c].pc = "found" =>
       \E R \in rtCall[c].during : rtCall[c].res = <<RT!find(R, rtCall[c].key)>>
  /\ rtCall[c].pc = "inserting" => \E S \in SUBSET SmtKeys : rtCall[c].res = <<S>>
  /\ rtCall[c].pc \in {"inserting", "inserted"} =>
       /\ rtCall[c].method = "insert"
       /\ \E R \in rtCall[c].during : rtCall[c].key \notin R
  /\ rtCall[c].pc = "settled" => Answered(c)

\* What had returned when a call was made has still returned.
SettledBefore ==
  \A c, d \in TreeCalls : d \in rtCall[c].before => rtCall[d].pc = "settled"

\* A key that was inserted may be lost to an insertion that overlapped.
Overlapped(c) == \E d \in TreeCalls \ {c} : RT!Inserts(d) /\ ~RT!Apart(c, d)

\* A key that was inserted is in the tree, and in every root that a later
\* insertion builds on.
Inserted ==
  /\ \A c \in TreeCalls :
       RT!Inserts(c) /\ rtCall[c].pc \in {"inserted", "settled"} =>
         rtCall[c].key \in rtKeys \/ Overlapped(c)
  /\ \A c, e \in TreeCalls :
       /\ rtCall[e].pc = "inserting" /\ c \in rtCall[e].before /\ RT!Inserts(c)
       => rtCall[c].key \in rtCall[e].res[1] \/ Overlapped(c)

TreeInv ==
  /\ TreeTypes
  /\ \A c \in TreeCalls : Knows(c)
  /\ SettledBefore
  /\ Inserted

LEMMA TreeInit == RT!Init => TreeInv
<1> SUFFICES ASSUME RT!Init PROVE TreeInv
  OBVIOUS
<1>1. (CHOOSE k \in SmtKeys : TRUE) \in SmtKeys
  BY ServicesAssumption
<1>2. /\ rtKeys \in SUBSET SmtKeys /\ DOMAIN rtCall = TreeCalls
      /\ \A c \in TreeCalls :
           /\ DOMAIN rtCall[c] = TreeFields /\ rtCall[c].pc = "idle"
           /\ rtCall[c].method = "insert" /\ rtCall[c].key \in SmtKeys
           /\ rtCall[c].during = {} /\ rtCall[c].before = {}
  BY <1>1 DEF RT!Init, TreeFields
<1> QED
  BY <1>2 DEF TreeInv, TreeTypes, TreePlaces, RT!Methods, Knows, SettledBefore, Inserted,
       RT!Inserts, RT!At

\* A step of one call that is not the end of an insertion: the tree and the
\* other calls stay, and so does what the call is.
QuietCall(c) ==
  /\ rtKeys' = rtKeys /\ DOMAIN rtCall' = TreeCalls
  /\ \A d \in TreeCalls \ {c} : rtCall'[d] = rtCall[d]
  /\ DOMAIN rtCall'[c] = TreeFields /\ rtCall'[c].pc \in TreePlaces
  /\ rtCall[c].pc \notin {"idle", "settled"} /\ rtCall'[c].pc # "idle"
  /\ rtCall'[c].method = rtCall[c].method /\ rtCall'[c].key = rtCall[c].key
  /\ rtCall'[c].during = rtCall[c].during /\ rtCall'[c].before = rtCall[c].before

LEMMA TreeQuiet ==
  ASSUME TreeInv, NEW c \in TreeCalls, QuietCall(c), Knows(c)',
         rtCall'[c].pc = "inserting" => rtCall'[c].res = <<rtKeys>>,
         rtCall'[c].pc = "inserted" => rtCall[c].pc = "inserted",
         rtCall'[c].pc = "settled" => rtCall[c].pc = "inserted" \/ rtCall[c].method # "insert"
  PROVE  TreeInv'
<1>1. TreeTypes'
  BY DEF TreeInv, TreeTypes, QuietCall
<1>2. \A d \in TreeCalls : Knows(d)'
  <2>1. ASSUME NEW d \in TreeCalls \ {c} PROVE Knows(d)'
    BY <2>1 DEF TreeInv, QuietCall, Knows, Answered
  <2> QED
    BY <2>1
<1>3. SettledBefore'
  BY DEF TreeInv, QuietCall, SettledBefore
<1>4. \A d \in TreeCalls : /\ RT!Inserts(d)' <=> RT!Inserts(d)
                           /\ Overlapped(d)' <=> Overlapped(d)
  <2>1. \A d \in TreeCalls : rtCall'[d].before = rtCall[d].before
    BY DEF QuietCall
  <2>2. \A d \in TreeCalls : RT!Inserts(d)' <=> RT!Inserts(d)
    BY DEF QuietCall, RT!Inserts, RT!At
  <2> QED
    BY <2>1, <2>2 DEF Overlapped, RT!Apart
<1>5. Inserted'
  <2>1. ASSUME NEW d \in TreeCalls, RT!Inserts(d)', rtCall'[d].pc \in {"inserted", "settled"}
        PROVE  rtCall'[d].key \in rtKeys' \/ Overlapped(d)'
    <3>1. rtCall[d].pc \in {"inserted", "settled"} /\ rtCall'[d].key = rtCall[d].key
      BY <2>1, <1>4 DEF QuietCall, RT!Inserts
    <3> QED
      BY <2>1, <3>1, <1>4 DEF TreeInv, Inserted, QuietCall
  <2>2. ASSUME NEW d \in TreeCalls, NEW e \in TreeCalls, RT!Inserts(d)',
               rtCall'[e].pc = "inserting", d \in rtCall'[e].before
        PROVE  rtCall'[d].key \in rtCall'[e].res[1] \/ Overlapped(d)'
    <3>1. rtCall'[d].key = rtCall[d].key /\ d \in rtCall[e].before /\ rtCall[d].pc = "settled"
      BY <2>2 DEF QuietCall, TreeInv, SettledBefore
    <3>2. CASE e = c
      BY <2>2, <3>1, <3>2, <1>4 DEF TreeInv, Inserted
    <3>3. CASE e # c
      BY <2>2, <3>1, <3>3, <1>4 DEF TreeInv, Inserted, QuietCall
    <3> QED
      BY <3>2, <3>3
  <2> QED
    BY <2>1, <2>2 DEF Inserted
<1> QED
  BY <1>1, <1>2, <1>3, <1>5 DEF TreeInv

LEMMA TreeInvoke ==
  ASSUME TreeInv, NEW c \in TreeCalls, RT!Invoke(c)
  PROVE  TreeInv'
<1>1. PICK m \in RT!Methods, k \in SmtKeys :
        rtCall' = [rtCall EXCEPT ![c] =
          [pc |-> "called", method |-> m, key |-> k, res |-> RT!Nothing, ret |-> RT!Nothing,
           during |-> {rtKeys}, before |-> {d \in TreeCalls : RT!At(d, "settled")}]]
  BY DEF RT!Invoke
<1>2. /\ rtCall[c].pc = "idle" /\ rtKeys' = rtKeys /\ DOMAIN rtCall' = TreeCalls
      /\ \A d \in TreeCalls \ {c} : rtCall'[d] = rtCall[d]
      /\ DOMAIN rtCall'[c] = TreeFields /\ rtCall'[c].pc = "called"
      /\ rtCall'[c].method \in RT!Methods /\ rtCall'[c].key \in SmtKeys
      /\ rtCall'[c].during = {rtKeys}
      /\ rtCall'[c].before = {d \in TreeCalls : rtCall[d].pc = "settled"}
  BY <1>1 DEF RT!Invoke, RT!At, TreeInv, TreeTypes, TreeFields
<1> HIDE <1>1
<1>3. TreeTypes'
  BY <1>2 DEF TreeInv, TreeTypes, TreePlaces, RT!InFlight
<1>4. \A d \in TreeCalls : Knows(d)'
  <2>1. ASSUME NEW d \in TreeCalls \ {c} PROVE Knows(d)'
    BY <1>2, <2>1 DEF TreeInv, Knows, Answered
  <2>2. Knows(c)'
    BY <1>2 DEF Knows
  <2> QED
    BY <2>1, <2>2
<1>5. SettledBefore'
  BY <1>2 DEF TreeInv, SettledBefore
<1>6. \A d \in TreeCalls \ {c} : Overlapped(d) => Overlapped(d)'
  <2>1. ASSUME NEW d \in TreeCalls \ {c}, NEW e \in TreeCalls \ {d},
               RT!Inserts(e), ~RT!Apart(d, e)
        PROVE  RT!Inserts(e)' /\ ~RT!Apart(d, e)'
    BY <1>2, <2>1 DEF RT!Inserts, RT!At, RT!Apart
  <2> QED
    BY <2>1 DEF Overlapped
<1>7. Inserted'
  <2>1. ASSUME NEW d \in TreeCalls, RT!Inserts(d)', rtCall'[d].pc \in {"inserted", "settled"}
        PROVE  rtCall'[d].key \in rtKeys' \/ Overlapped(d)'
    <3>1. d # c /\ RT!Inserts(d)
      BY <1>2, <2>1 DEF RT!Inserts, RT!At
    <3> QED
      BY <1>2, <1>6, <2>1, <3>1 DEF TreeInv, Inserted
  <2>2. ASSUME NEW d \in TreeCalls, NEW e \in TreeCalls, RT!Inserts(d)',
               rtCall'[e].pc = "inserting", d \in rtCall'[e].before
        PROVE  rtCall'[d].key \in rtCall'[e].res[1] \/ Overlapped(d)'
    <3>1. e # c /\ rtCall'[e] = rtCall[e]
      BY <1>2, <2>2
    <3>2. d # c /\ RT!Inserts(d) /\ rtCall'[d] = rtCall[d]
      BY <1>2, <2>2, <3>1 DEF TreeInv, SettledBefore, RT!Inserts, RT!At
    <3> QED
      BY <1>6, <2>2, <3>1, <3>2 DEF TreeInv, Inserted
  <2> QED
    BY <2>1, <2>2 DEF Inserted
<1> QED
  BY <1>3, <1>4, <1>5, <1>7 DEF TreeInv

\* A call that ends, or goes on to its next await, and leaves the tree alone.
LEMMA TreeSettle ==
  ASSUME TreeInv, NEW c \in TreeCalls, NEW pc \in TreePlaces \ {"idle"}, NEW ret,
         RT!Settle(c, pc, ret), UNCHANGED rtKeys, rtCall[c].pc \notin {"idle", "settled"}
  PROVE  QuietCall(c) /\ rtCall'[c].pc = pc /\ rtCall'[c].ret = ret
BY DEF RT!Settle, QuietCall, TreeInv, TreeTypes, TreeFields

LEMMA TreeRejected ==
  ASSUME TreeInv, NEW c \in TreeCalls, RT!Settle(c, "rejected", RT!Nothing), UNCHANGED rtKeys,
         rtCall[c].pc \notin {"idle", "settled"}
  PROVE  TreeInv'
<1>1. QuietCall(c) /\ rtCall'[c].pc = "rejected"
  BY TreeSettle DEF TreePlaces
<1>2. Knows(c)'
  BY <1>1 DEF Knows
<1> QED
  BY <1>1, <1>2, TreeQuiet

LEMMA TreeSearch ==
  ASSUME TreeInv, NEW c \in TreeCalls, RT!awaitFind(c)
  PROVE  TreeInv'
<1>1. CASE RT!Settle(c, "rejected", RT!Nothing)
  BY <1>1, TreeRejected DEF RT!awaitFind, RT!At
<1>2. CASE rtCall' = [rtCall EXCEPT ![c].pc = "found",
                                    ![c].res = <<RT!find(rtKeys, rtCall[c].key)>>]
  <2>1. /\ QuietCall(c) /\ rtCall'[c].pc = "found"
        /\ rtCall'[c].res = <<RT!find(rtKeys, rtCall[c].key)>>
    BY <1>2 DEF RT!awaitFind, RT!At, QuietCall, TreeInv, TreeTypes, TreeFields, TreePlaces,
         RT!InFlight
  <2>2. rtKeys \in rtCall[c].during
    BY DEF RT!awaitFind, RT!At, TreeInv, Knows
  <2>3. Knows(c)'
    BY <2>1, <2>2 DEF Knows, QuietCall
  <2> QED
    BY <2>1, <2>3, TreeQuiet
<1> QED
  BY <1>1, <1>2 DEF RT!awaitFind

LEMMA FindFound == \A S, k : RT!find(S, k).found <=> k \in S
BY DEF RT!find

LEMMA TreeInsert ==
  ASSUME TreeInv, NEW c \in TreeCalls, RT!insert(c)
  PROVE  TreeInv'
<1>1. CASE rtCall[c].res[1].found
  BY <1>1, TreeRejected DEF RT!insert, RT!At
<1>2. CASE ~rtCall[c].res[1].found
  <2>1. /\ QuietCall(c) /\ rtCall'[c].pc = "inserting" /\ rtCall'[c].res = <<rtKeys>>
        /\ rtCall[c].method = "insert" /\ rtCall[c].pc = "found"
    BY <1>2 DEF RT!insert, RT!At, QuietCall, TreeInv, TreeTypes, TreeFields, TreePlaces,
         RT!InFlight
  <2>2. \E R \in rtCall[c].during : rtCall[c].key \notin R
    <3>1. PICK R \in rtCall[c].during : rtCall[c].res = <<RT!find(R, rtCall[c].key)>>
      BY <2>1 DEF TreeInv, Knows
    <3>2. rtCall[c].res[1] = RT!find(R, rtCall[c].key)
      BY <3>1
    <3>3. ~RT!find(R, rtCall[c].key).found
      BY <1>2, <3>2
    <3> QED
      BY <3>3, FindFound
  <2>3. rtKeys \in rtCall[c].during /\ rtKeys \in SUBSET SmtKeys
    BY <2>1 DEF TreeInv, Knows, TreeTypes
  <2>4. Knows(c)'
    BY <2>1, <2>2, <2>3 DEF Knows, QuietCall
  <2> QED
    BY <2>1, <2>4, TreeQuiet
<1> QED
  BY <1>1, <1>2

LEMMA TreeReturns ==
  ASSUME TreeInv, NEW c \in TreeCalls,
         RT!isRevoked(c) \/ RT!insertReturns(c) \/ RT!getNonMembershipProof(c)
  PROVE  TreeInv'
<1>1. CASE RT!isRevoked(c)
  <2>1. PICK R \in rtCall[c].during : rtCall[c].res = <<RT!find(R, rtCall[c].key)>>
    BY <1>1 DEF RT!isRevoked, RT!At, TreeInv, Knows
  <2>2. /\ QuietCall(c) /\ rtCall'[c].pc = "settled"
        /\ rtCall'[c].ret = <<rtCall[c].res[1].found>>
    BY <1>1, TreeSettle DEF RT!isRevoked, RT!At, TreePlaces
  <2>3. rtCall'[c].ret[1] <=> rtCall[c].key \in R
    <3>1. rtCall[c].res[1] = RT!find(R, rtCall[c].key)
      BY <2>1
    <3>2. rtCall'[c].ret[1] = rtCall[c].res[1].found
      BY <2>2
    <3>3. RT!find(R, rtCall[c].key).found <=> rtCall[c].key \in R
      BY FindFound
    <3>4. rtCall'[c].ret[1] = RT!find(R, rtCall[c].key).found
      BY <3>1, <3>2
    <3> QED
      BY <3>3, <3>4
  <2>4. rtCall[c].method = "isRevoked"
    BY <1>1 DEF RT!isRevoked
  <2>5. Knows(c)'
    BY <2>2, <2>3, <2>4 DEF Knows, Answered, QuietCall
  <2> QED
    BY <2>2, <2>4, <2>5, TreeQuiet
<1>2. CASE RT!insertReturns(c)
  <2>1. QuietCall(c) /\ rtCall'[c].pc = "settled" /\ rtCall[c].pc = "inserted"
    BY <1>2, TreeSettle DEF RT!insertReturns, RT!At, TreePlaces
  <2>2. rtCall[c].method = "insert"
    BY <2>1 DEF TreeInv, Knows
  <2>3. Knows(c)'
    BY <2>1, <2>2 DEF Knows, Answered, QuietCall
  <2> QED
    BY <2>1, <2>3, TreeQuiet
<1>3. CASE RT!getNonMembershipProof(c)
  <2>1. rtCall[c].pc = "found" /\ rtCall[c].method = "getNonMembershipProof" /\ rtKeys' = rtKeys
    BY <1>3 DEF RT!getNonMembershipProof, RT!At
  <2>2. PICK R \in rtCall[c].during : rtCall[c].res = <<RT!find(R, rtCall[c].key)>>
    BY <2>1 DEF TreeInv, Knows
  <2>3. CASE rtCall[c].res[1].found \/ Len(rtCall[c].res[1].siblings) > SMT_DEPTH
    BY <1>3, <2>1, <2>3, TreeRejected DEF RT!getNonMembershipProof
  <2>4. CASE ~(rtCall[c].res[1].found \/ Len(rtCall[c].res[1].siblings) > SMT_DEPTH)
    <3>1. /\ QuietCall(c) /\ rtCall'[c].pc = "settled"
          /\ rtCall'[c].ret = <<RT!Opening(c)>>
      BY <1>3, <2>1, <2>4, TreeSettle DEF RT!getNonMembershipProof, TreePlaces
    <3>2. rtCall[c].res[1] = RT!find(R, rtCall[c].key)
      BY <2>2
    <3>3. rtCall[c].key \notin R
      <4>1. ~RT!find(R, rtCall[c].key).found
        BY <2>4, <3>2
      <4> QED
        BY <4>1, FindFound
    <3>4. R \in SUBSET SmtKeys /\ rtCall[c].key \in SmtKeys
      BY DEF TreeInv, TreeTypes
    <3>5. Len(RT!find(R, rtCall[c].key).siblings) <= SMT_DEPTH
      <4>1. Len(RT!find(R, rtCall[c].key).siblings) \in Nat
        <5>1. RT!PathLength(R, rtCall[c].key) \in Nat
          <6>1. Len(rtCall[c].key) \in Nat
            BY <3>4, ServicesAssumption
          <6> QED
            BY <3>4, <6>1, PathEnds
        <5> QED
          BY <5>1 DEF RT!find
      <4> QED
        BY <2>4, <3>2, <4>1, ServicesAssumption
    <3>6. RT!Opening(c) = [siblings |-> RT!Padded(RT!find(R, rtCall[c].key).siblings),
                           leaf |-> RT!find(R, rtCall[c].key).leaf, root |-> rtKeys]
      BY <3>2 DEF RT!Opening
    <3>7. \/ RT!Excludes(rtCall'[c].ret[1], rtCall[c].key, R)
          \/ RT!PathLength(R, rtCall[c].key) = SMT_DEPTH
      BY <3>1, <3>3, <3>4, <3>5, <3>6, OpeningExcludes
    <3>8. Knows(c)'
      BY <2>1, <3>1, <3>3, <3>7 DEF Knows, Answered, QuietCall
    <3> QED
      BY <2>1, <3>1, <3>8, TreeQuiet
  <2> QED
    BY <2>3, <2>4
<1> QED
  BY <1>1, <1>2, <1>3

\* The end of an insertion: the tree becomes the root it began with, and its
\* key; what else was in the tree is lost.
LEMMA TrieInsert ==
  ASSUME TreeInv, NEW c \in TreeCalls, RT!trieInsert(c)
  PROVE  TreeInv'
<1>1. rtCall[c].pc = "inserting"
  BY DEF RT!trieInsert, RT!At
<1>2. CASE RT!Settle(c, "rejected", RT!Nothing) /\ rtKeys' = rtKeys
  BY <1>1, <1>2, TreeRejected
<1>3. CASE /\ rtKeys' = rtCall[c].res[1] \cup {rtCall[c].key}
           /\ rtCall' = [d \in TreeCalls |->
                IF d = c THEN [rtCall[c] EXCEPT !.pc = "inserted"]
                ELSE IF rtCall[d].pc \in RT!InFlight
                     THEN [rtCall[d] EXCEPT !.during = @ \cup {rtKeys'}] ELSE rtCall[d]]
  <2>1. PICK S \in SUBSET SmtKeys : rtCall[c].res = <<S>>
    BY <1>1 DEF TreeInv, Knows
  <2>2. rtKeys' = S \cup {rtCall[c].key} /\ rtKeys' \in SUBSET SmtKeys
    BY <1>3, <2>1 DEF TreeInv, TreeTypes
  <2>3. /\ DOMAIN rtCall' = TreeCalls
        /\ \A d \in TreeCalls :
             /\ DOMAIN rtCall'[d] = TreeFields
             /\ rtCall'[d].pc = (IF d = c THEN "inserted" ELSE rtCall[d].pc)
             /\ rtCall'[d].method = rtCall[d].method /\ rtCall'[d].key = rtCall[d].key
             /\ rtCall'[d].res = rtCall[d].res /\ rtCall'[d].ret = rtCall[d].ret
             /\ rtCall'[d].before = rtCall[d].before
             /\ rtCall'[d].during =
                  IF d # c /\ rtCall[d].pc \in RT!InFlight
                  THEN rtCall[d].during \cup {rtKeys'} ELSE rtCall[d].during
    BY <1>3 DEF TreeInv, TreeTypes, TreeFields
  <2> HIDE <1>3
  <2>4. TreeTypes'
    <3>1. ASSUME NEW d \in TreeCalls
          PROVE  /\ DOMAIN rtCall'[d] = TreeFields
                 /\ rtCall'[d].pc \in TreePlaces /\ rtCall'[d].method \in RT!Methods
                 /\ rtCall'[d].key \in SmtKeys
                 /\ rtCall'[d].during \in SUBSET (SUBSET SmtKeys)
                 /\ rtCall'[d].before \in SUBSET TreeCalls
      <4>1. rtCall[d].during \cup {rtKeys'} \in SUBSET (SUBSET SmtKeys)
        BY <2>2 DEF TreeInv, TreeTypes
      <4>2. rtCall'[d].during \in SUBSET (SUBSET SmtKeys)
        BY <2>3, <4>1 DEF TreeInv, TreeTypes
      <4>3. rtCall'[d].pc \in TreePlaces
        BY <2>3 DEF TreeInv, TreeTypes, TreePlaces, RT!InFlight
      <4> QED
        BY <2>3, <4>2, <4>3 DEF TreeInv, TreeTypes
    <3> QED
      BY <2>2, <2>3, <3>1 DEF TreeTypes
  <2>5. \A d \in TreeCalls : Knows(d)'
    <3>1. Knows(c)'
      <4>1. rtCall'[c].pc = "inserted" /\ rtCall'[c].method = "insert"
        BY <1>1, <2>3 DEF TreeInv, Knows
      <4>2. PICK R \in rtCall[c].during : rtCall[c].key \notin R
        BY <1>1 DEF TreeInv, Knows
      <4>3. rtCall'[c].key = rtCall[c].key /\ rtCall'[c].during = rtCall[c].during
        BY <2>3
      <4> QED
        BY <4>1, <4>2, <4>3 DEF Knows
    <3>2. ASSUME NEW d \in TreeCalls \ {c} PROVE Knows(d)'
      <4>1. /\ rtCall'[d].pc = rtCall[d].pc /\ rtCall'[d].method = rtCall[d].method
            /\ rtCall'[d].key = rtCall[d].key /\ rtCall'[d].res = rtCall[d].res
            /\ rtCall'[d].ret = rtCall[d].ret
            /\ rtCall[d].during \subseteq rtCall'[d].during
            /\ rtCall[d].pc \in RT!InFlight => rtKeys' \in rtCall'[d].during
            /\ rtCall[d].pc \notin RT!InFlight => rtCall'[d].during = rtCall[d].during
        BY <2>3, <3>2
      <4>2. Knows(d)
        BY DEF TreeInv
      <4>3. CASE rtCall[d].pc \in RT!InFlight
        <5>1. rtCall'[d].pc # "settled" /\ rtKeys' \in rtCall'[d].during
          BY <4>1, <4>3 DEF RT!InFlight
        <5>2. rtCall'[d].pc = "found" =>
                \E R \in rtCall'[d].during : rtCall'[d].res = <<RT!find(R, rtCall'[d].key)>>
          BY <4>1, <4>2 DEF Knows
        <5>3. rtCall'[d].pc = "inserting" => \E S2 \in SUBSET SmtKeys : rtCall'[d].res = <<S2>>
          BY <4>1, <4>2 DEF Knows
        <5>4. rtCall'[d].pc \in {"inserting", "inserted"} =>
                /\ rtCall'[d].method = "insert"
                /\ \E R \in rtCall'[d].during : rtCall'[d].key \notin R
          BY <4>1, <4>2 DEF Knows
        <5> QED
          BY <5>1, <5>2, <5>3, <5>4 DEF Knows
      <4>4. CASE rtCall[d].pc \notin RT!InFlight
        <5>1. /\ rtCall'[d].pc \notin {"called", "found", "inserting", "inserted"}
              /\ rtCall'[d].during = rtCall[d].during
          BY <4>1, <4>4 DEF RT!InFlight
        <5>2. rtCall'[d].pc = "settled" => Answered(d)'
          BY <4>1, <4>2, <5>1 DEF Knows, Answered
        <5> QED
          BY <5>1, <5>2 DEF Knows
      <4> QED
        BY <4>3, <4>4
    <3> QED
      BY <3>1, <3>2
  <2>6. SettledBefore'
    <3>1. \A d \in TreeCalls :
            /\ rtCall'[d].before = rtCall[d].before
            /\ rtCall[d].pc = "settled" => rtCall'[d].pc = "settled"
      BY <1>1, <2>3
    <3> QED
      BY <3>1 DEF TreeInv, SettledBefore
  <2>7. \A d \in TreeCalls : /\ RT!Inserts(d)' <=> RT!Inserts(d)
                             /\ Overlapped(d)' <=> Overlapped(d)
    <3>1. \A d \in TreeCalls : RT!Inserts(d)' <=> RT!Inserts(d)
      BY <1>1, <2>3 DEF RT!Inserts, RT!At
    <3> QED
      BY <2>3, <3>1 DEF Overlapped, RT!Apart
  <2>8. Inserted'
    <3>1. ASSUME NEW d \in TreeCalls, RT!Inserts(d)', rtCall'[d].pc \in {"inserted", "settled"}
          PROVE  rtCall'[d].key \in rtKeys' \/ Overlapped(d)'
      <4>1. CASE d = c
        BY <2>2, <2>3, <4>1
      <4>2. CASE d # c /\ d \in rtCall[c].before
        <5>1. rtCall[d].key \in rtCall[c].res[1] \/ Overlapped(d)
          BY <1>1, <2>7, <3>1, <4>2 DEF TreeInv, Inserted
        <5>2. rtCall[c].res[1] = S
          BY <2>1
        <5>3. CASE rtCall[d].key \in rtCall[c].res[1]
          <6>1. rtCall'[d].key = rtCall[d].key
            BY <2>3
          <6> QED
            BY <2>2, <5>2, <5>3, <6>1
        <5>4. CASE Overlapped(d)
          BY <2>7, <5>4
        <5> QED
          BY <5>1, <5>3, <5>4
      <4>3. CASE d # c /\ d \notin rtCall[c].before
        <5>1. c \notin rtCall[d].before
          BY <1>1 DEF TreeInv, SettledBefore
        <5>2. RT!Inserts(c)
          BY <1>1 DEF TreeInv, Knows, RT!Inserts, RT!At
        <5>3. Overlapped(d)
          BY <4>3, <5>1, <5>2 DEF Overlapped, RT!Apart
        <5> QED
          BY <2>7, <5>3
      <4> QED
        BY <4>1, <4>2, <4>3
    <3>2. ASSUME NEW d \in TreeCalls, NEW e \in TreeCalls, RT!Inserts(d)',
                 rtCall'[e].pc = "inserting", d \in rtCall'[e].before
          PROVE  rtCall'[d].key \in rtCall'[e].res[1] \/ Overlapped(d)'
      <4>1. rtCall[e].pc = "inserting" /\ d \in rtCall[e].before
        BY <2>3, <3>2
      <4>2. rtCall[d].key \in rtCall[e].res[1] \/ Overlapped(d)
        BY <2>7, <3>2, <4>1 DEF TreeInv, Inserted
      <4> QED
        BY <2>3, <2>7, <4>2
    <3> QED
      BY <3>1, <3>2 DEF Inserted
  <2> QED
    BY <2>4, <2>5, <2>6, <2>8 DEF TreeInv
<1> QED
  BY <1>2, <1>3 DEF RT!trieInsert

LEMMA TreeNext == TreeInv /\ (RT!Next \/ UNCHANGED rtVars) => TreeInv'
<1>1. ASSUME TreeInv, UNCHANGED rtVars PROVE TreeInv'
  <2>1. rtKeys' = rtKeys /\ rtCall' = rtCall
    BY <1>1 DEF rtVars
  <2> QED
    BY <1>1, <2>1 DEF TreeInv, TreeTypes, Knows, Answered, SettledBefore, Inserted, Overlapped,
         RT!Inserts, RT!Apart, RT!At
<1>2. ASSUME TreeInv, RT!Next PROVE TreeInv'
  BY <1>2, TreeInvoke, TreeSearch, TreeInsert, TreeReturns, TrieInsert DEF RT!Next, RT!Resume
<1> QED
  BY <1>1, <1>2

LEMMA TreeAlways == ServicesSpec => []TreeInv
<1>1. ServicesInit => TreeInv
  BY TreeInit DEF ServicesInit
<1>2. TreeInv /\ [ServicesNext]_allVars => TreeInv'
  BY TreeNext, OneComponentMoves
<1> QED
  BY <1>1, <1>2, PTL DEF ServicesSpec

\* revocation/src/index.ts:53-60: a revocation that has returned stays unless
\* another insertion overlapped it.
THEOREM RevocationsStay == ServicesSpec => []SettledInsertionIsKept
<1>1. TreeInv => SettledInsertionIsKept
  BY DEF TreeInv, Inserted, Overlapped, SettledInsertionIsKept, RT!SettledInsertionIsKept, RT!At
<1> QED
  BY TreeAlways, <1>1, PTL

\* revocation/src/index.ts:63-96: every answer is right for a tree of its
\* call, and an opening opens it unless its path has all levels of the circuit.
THEOREM AnswersOfTheCall == ServicesSpec => []AnswersAreOfTheCall
<1>1. TreeInv => AnswersAreOfTheCall
  BY DEF TreeInv, Knows, Answered, AnswersAreOfTheCall, RT!AnswersAreOfTheCall, RT!At
<1> QED
  BY TreeAlways, <1>1, PTL

-----------------------------------------------------------------------------
(* The types of all of them follow from their invariants.                  *)
LEMMA BaselineAlways == ServicesSpec => [](Inv /\ Counts)
<1>1. ServicesInit => Inv /\ Counts
  BY InvInit, CountsInit DEF ServicesInit
<1>2. (Inv /\ Counts) /\ [ServicesNext]_allVars => (Inv /\ Counts)'
  BY InvNext, CountsNext, OneComponentMoves
<1> QED
  BY <1>1, <1>2, PTL DEF ServicesSpec

LEMMA OneSubject == ServicesSpec => [](subject \in Subjects)
<1>1. ServicesInit => subject \in Subjects
  BY DEF ServicesInit
<1>2. subject \in Subjects /\ [ServicesNext]_allVars => (subject \in Subjects)'
  BY OneComponentMoves
<1> QED
  BY <1>1, <1>2, PTL DEF ServicesSpec

LEMMA LedgerTyped == LedgerInv => LC!TypeOK
<1> SUFFICES ASSUME LedgerInv PROVE LC!TypeOK
  OBVIOUS
<1>1. lcChain.count \in 4..lcDelta /\ lcChain.root \subseteq LedgerCalls
  BY DEF LedgerInv, LedgerTypes, NoncesCounted
<1>2. ASSUME NEW c \in LedgerCalls
      PROVE  /\ lcCall[c].pc \in LedgerPlaces /\ lcCall[c].method \in LC!Methods
             /\ lcCall[c].before \subseteq LedgerCalls /\ lcCall[c].nonce \in Nat
  BY DEF LedgerInv, LedgerTypes
<1>3. ASSUME NEW c \in LedgerCalls PROVE lcCall[c].nonce \in {0} \cup 4..lcDelta
  BY <1>2 DEF LedgerInv, LedgerTypes, NoncesCounted
<1> QED
  BY <1>1, <1>2, <1>3 DEF LC!TypeOK, LedgerPlaces

LEMMA TreeTyped == TreeInv => RT!TypeOK
BY DEF TreeInv, TreeTypes, Knows, RT!TypeOK, TreePlaces

\* The places, counters and sets of every component, for all its parameters.
THEOREM ServicesTypes == ServicesSpec => []TypesOK
<1>1. subject \in Subjects /\ Inv /\ Counts /\ LedgerInv /\ NodeInv /\ TreeInv => TypesOK
  BY CountsTypes, LedgerTyped, TreeTyped DEF TypesOK, NodeInv
<1> QED
  BY BaselineAlways, OneSubject, LedgerAlways, NodeAlways, TreeAlways, <1>1, PTL
=============================================================================
