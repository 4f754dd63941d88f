CONSTANTS
  gov = gov
  i1 = i1
  k1 = k1
  h1 = h1
  h2 = h2
  Accounts = {gov}
  Governance = gov
  NoAddress = NoAddress
  DIDs = {i1}
  Keys = {k1}
  NoKey = NoKey
  Roots <- MCRoots
  EmptyRoot <- MCEmptyRoot
  SchemaIds = {}
  SchemaHashes = {}
  NoHash = NoHash
  Verifiers = {v1}
  Nonces = {n1}
  Calls = {c1}
  Policies <- OnlyAdult
  TTL = 0
  MaxTime = 0
  Undefined = Undefined
  FieldPrime = 67
  CmpBits = 3
  Issuers = {i1}
  pkOf <- MCpkOf
  Holders = {h1}
  Skipping = {}
  Ages = {2, 3}
  Sessions = {s1}
  MaxCredentials = 2
  MaxFailures = 1
SPECIFICATION Spec
PROPERTY RevokedNeverAccepted
CHECK_DEADLOCK FALSE
