--------------------------- MODULE RevocationTree ---------------------------
(* packages/revocation/src/index.ts: the revoked-set tree with overlapping *)
(* calls.  Every method awaits the trie, so other calls run in between.    *)
(*                                                                         *)
(* The trie (circomlibjs) is external.  Hashing is collision free and the  *)
(* shape of a trie follows from its keys, so a root, a node and a sibling  *)
(* are the sets of keys below them.  A trie insertion reads the root when  *)
(* it starts and sets a new one when it ends; meanwhile it deletes nodes   *)
(* of the root it read, so that another walk may throw.                    *)
EXTENDS Naturals, Sequences, FiniteSets, SequencesExt

CONSTANTS Calls,      \* calls of the methods
          Keys,       \* SMT keys, as bit strings of one length
          SMT_DEPTH   \* levels of the circuit, 32 in the code, at least 1

VARIABLES
  keys,     \* the revoked set: what tree.root commits to
  call      \* the calls
vars == <<keys, call>>

Methods == {"insert", "isRevoked", "getNonMembershipProof"}
Nothing == <<>>

Init ==
  /\ keys \in SUBSET Keys
  /\ call = [c \in Calls |-> [pc |-> "idle", method |-> "insert", key |-> CHOOSE k \in Keys : TRUE,
                              res |-> Nothing, ret |-> Nothing, during |-> {}, before |-> {}]]

At(c, pc) == call[c].pc = pc
InFlight == {"called", "found", "inserting", "inserted"}

-----------------------------------------------------------------------------
(* The trie and the circuit's verifier of exclusions                       *)

Under(S, k, d) == {s \in S : SubSeq(s, 1, d) = SubSeq(k, 1, d)}

\* How many middle nodes a search for k passes.
PathLength(S, k) ==
  CHOOSE d \in 0..Len(k) : /\ Cardinality(Under(S, k, d)) <= 1
                           /\ \A e \in 0..(d - 1) : Cardinality(Under(S, k, e)) > 1

\* "leaf" is the conflicting leaf at the end of the path, {} for isOld0.
find(S, k) ==
  LET d == PathLength(S, k)
  IN [found |-> k \in S,
      siblings |-> [i \in 1..d |-> Under(S, k, i - 1) \ Under(S, k, i)],
      leaf |-> Under(S, k, d)]

\* SMTVerifier(SMT_DEPTH) with fnc = 1; its last level must have no sibling.
Excludes(o, k, root) ==
  /\ Len(o.siblings) = SMT_DEPTH /\ Last(o.siblings) = {}
  /\ k \notin o.leaf
  /\ o.leaf \cup UNION ToSet(o.siblings) = root

-----------------------------------------------------------------------------
Invoke(c) ==
  /\ At(c, "idle")
  /\ \E m \in Methods, k \in Keys :
       call' = [call EXCEPT ![c] =
         [pc |-> "called", method |-> m, key |-> k, res |-> Nothing, ret |-> Nothing,
          during |-> {keys}, before |-> {d \in Calls : At(d, "settled")}]]
  /\ UNCHANGED keys

Settle(c, pc, ret) ==
  call' = [call EXCEPT ![c].pc = pc, ![c].ret = ret]

\* An insertion that another call has not finished.
Inserting(c) == \E d \in Calls \ {c} : At(d, "inserting")

\* await this.tree.find(key)
awaitFind(c) ==
  /\ At(c, "called")
  /\ \/ call' = [call EXCEPT ![c].pc = "found", ![c].res = <<find(keys, call[c].key)>>]
     \/ Inserting(c) /\ Settle(c, "rejected", Nothing)
  /\ UNCHANGED keys

isRevoked(c) ==
  /\ At(c, "found") /\ call[c].method = "isRevoked"
  /\ Settle(c, "settled", <<call[c].res[1].found>>)
  /\ UNCHANGED keys

\* Seeded defect: a revoked credential is not refused.
insertUnchecked(c) ==
  /\ At(c, "found") /\ call[c].method = "insert"
  /\ call' = [call EXCEPT ![c].pc = "inserting", ![c].res = <<keys>>]
  /\ UNCHANGED keys

\* insert, resumed after find: this.tree.insert(key, 1) is called and reads
\* the root.
insert(c) ==
  /\ At(c, "found") /\ call[c].method = "insert"
  /\ IF call[c].res[1].found THEN Settle(c, "rejected", Nothing)
     ELSE call' = [call EXCEPT ![c].pc = "inserting", ![c].res = <<keys>>]
  /\ UNCHANGED keys

\* The trie sets the new root, or finds the key in the root it had read.
trieInsert(c) ==
  /\ At(c, "inserting")
  /\ LET S == call[c].res[1]  k == call[c].key IN
     \/ /\ k \in S \/ keys # S \/ Inserting(c)
        /\ Settle(c, "rejected", Nothing)
        /\ UNCHANGED keys
     \/ /\ k \notin S
        /\ keys' = S \cup {k}
        /\ call' = [d \in Calls |->
               IF d = c THEN [call[c] EXCEPT !.pc = "inserted"]
               ELSE IF call[d].pc \in InFlight
                    THEN [call[d] EXCEPT !.during = @ \cup {keys'}] ELSE call[d]]

\* Seeded defect: the trie's insertion is not awaited.
insertReturnsEarly(c) ==
  /\ At(c, "inserted") \/ At(c, "inserting")
  /\ Settle(c, "settled", <<keys>>)
  /\ UNCHANGED keys

\* return this.root()
insertReturns(c) ==
  /\ At(c, "inserted")
  /\ Settle(c, "settled", <<keys>>)
  /\ UNCHANGED keys

Padded(siblings) ==
  siblings \o [i \in 1..(SMT_DEPTH - Len(siblings)) |-> {}]

Opening(c) ==
  [siblings |-> Padded(call[c].res[1].siblings), leaf |-> call[c].res[1].leaf, root |-> keys]

\* Seeded defect: a path that is too long is cut.
getNonMembershipProofCuts(c) ==
  /\ At(c, "found") /\ call[c].method = "getNonMembershipProof"
  /\ IF call[c].res[1].found THEN Settle(c, "rejected", Nothing)
     ELSE Settle(c, "settled",
            <<[Opening(c) EXCEPT !.siblings = SubSeq(@, 1, SMT_DEPTH)]>>)
  /\ UNCHANGED keys

\* The root is read after the await.
getNonMembershipProof(c) ==
  /\ At(c, "found") /\ call[c].method = "getNonMembershipProof"
  /\ IF call[c].res[1].found \/ Len(call[c].res[1].siblings) > SMT_DEPTH
     THEN Settle(c, "rejected", Nothing)
     ELSE Settle(c, "settled", <<Opening(c)>>)
  /\ UNCHANGED keys

Resume(c) ==
  \/ awaitFind(c) \/ isRevoked(c) \/ insert(c) \/ trieInsert(c) \/ insertReturns(c)
  \/ getNonMembershipProof(c)

Next == \E c \in Calls : Invoke(c) \/ Resume(c)

Spec == Init /\ [][Next]_vars

-----------------------------------------------------------------------------
(* The revoked set and the progress of the calls: the trie is asked for an *)
(* insertion only of a key that was not revoked when the call looked.      *)
TypeOK ==
  /\ keys \subseteq Keys
  /\ \A c \in Calls :
       /\ call[c].pc \in InFlight \cup {"idle", "settled", "rejected"}
       /\ call[c].method \in Methods /\ call[c].key \in Keys
       /\ call[c].during \subseteq SUBSET Keys /\ call[c].before \subseteq Calls
       /\ call[c].pc \in {"inserting", "inserted"} =>
            /\ call[c].method = "insert"
            /\ \E R \in call[c].during : call[c].key \notin R

Apart(c, d) == c \in call[d].before \/ d \in call[c].before
Inserts(c) == call[c].method = "insert" /\ ~At(c, "idle")

(* index.ts:53-60: an insertion that has returned stays in the revoked     *)
(* set.  A key can only be lost to another insertion that overlapped it,   *)
(* which is why harness/e2e_core.ts awaits one insertion before the next.  *)
SettledInsertionIsKept ==
  \A c \in Calls : Inserts(c) /\ At(c, "settled") =>
    \/ call[c].key \in keys
    \/ \E d \in Calls \ {c} : Inserts(d) /\ ~Apart(c, d)

(* index.ts:63-96: whatever is inserted meanwhile, the answer of isRevoked *)
(* and the opening of getNonMembershipProof are right for a root the tree  *)
(* had during the call.  The circuit refuses an honest opening only if its *)
(* path has exactly SMT_DEPTH siblings, which line 82 lets through.        *)
AnswersAreOfTheCall ==
  \A c \in Calls : At(c, "settled") =>
    /\ call[c].method = "isRevoked" =>
         \E R \in call[c].during : call[c].ret[1] <=> call[c].key \in R
    /\ call[c].method = "getNonMembershipProof" =>
         \E R \in call[c].during :
           \/ Excludes(call[c].ret[1], call[c].key, R)
           \/ call[c].key \notin R /\ PathLength(R, call[c].key) = SMT_DEPTH
=============================================================================
