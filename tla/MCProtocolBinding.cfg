CONSTANTS
  gov = gov
  i1 = i1
  k1 = k1
  h1 = h1
  h2 = h2
  Accounts = {gov}
  Governance = gov
  NoAddress = NoAddress
  DIDs = {i1}
  Keys = {k1}
  NoKey = NoKey
  Roots <- MCRoots
  EmptyRoot <- MCEmptyRoot
  SchemaIds = {}
  SchemaHashes = {}
  NoHash = NoHash
  Verifiers = {v1, v2}
  Nonces = {n1, n2}
  Calls = {c1}
  Policies <- Both
  TTL = 0
  MaxTime = 0
  Undefined = Undefined
  FieldPrime = 67
  CmpBits = 3
  Issuers = {i1}
  pkOf <- MCpkOf
  Holders = {h1, h2}
  Skipping = {h2}
  Ages = {1, 2}
  Sessions = {s1, s2}
  MaxCredentials = 1
  MaxFailures = 1
SPECIFICATION Spec
SYMMETRY Symmetry
INVARIANTS AcceptedIsBacked AcceptedWhereRequested
CHECK_DEADLOCK FALSE
