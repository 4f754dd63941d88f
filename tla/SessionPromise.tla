--------------------------- MODULE SessionPromise ---------------------------
(***************************************************************************)
(* What a verifier promises about a session nonce, whatever the network    *)
(* does to presentations: it is issued by one verifier, it is spent at     *)
(* most once, and at most one acceptance ever follows its spending.        *)
(* packages/verifier/src/index.ts, "single-use session nonces"; the module *)
(* Verifier is shown to implement this one.                                *)
(***************************************************************************)
CONSTANTS Verifiers, Nonces

VARIABLE phase   \* of each nonce at each verifier

Phases == {"unissued", "open", "spent", "accepted"}

Init == phase = [v \in Verifiers |-> [n \in Nonces |-> "unissued"]]

Move(v, n, from, to) ==
  /\ phase[v][n] = from
  /\ phase' = [phase EXCEPT ![v][n] = to]

\* A fresh nonce: no verifier has handed it out before.
Issue(v, n) ==
  /\ \A w \in Verifiers : phase[w][n] = "unissued"
  /\ Move(v, n, "unissued", "open")

\* The nonce is gone, whether or not the presentation that named it is good.
Spend(v, n) == Move(v, n, "open", "spent")

Accept(v, n) == Move(v, n, "spent", "accepted")

Next == \E v \in Verifiers, n \in Nonces :
          Issue(v, n) \/ Spend(v, n) \/ Accept(v, n)

Spec == Init /\ [][Next]_phase
=============================================================================
