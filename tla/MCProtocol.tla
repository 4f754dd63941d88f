----------------------------- MODULE MCProtocol -----------------------------
EXTENDS Protocol, TLC

CONSTANTS i1, k1, gov, h1, h2

MCpkOf == [i \in {i1} |-> k1]

MCRoots == {smtRoot(S) : S \in SUBSET RevocationKeys}
MCEmptyRoot == smtRoot({})

Adult == [type |-> "age_gte", threshold |-> 2]
Minor == [type |-> "age_lt", threshold |-> 2]
OnlyAdult == {Adult}
Both == {Adult, Minor}

\* For the runs that check invariants only.
Symmetry == Permutations(Sessions) \cup Permutations(Nonces)
              \cup Permutations(Verifiers)
=============================================================================
