CONSTANTS
  gov = gov
  i1 = i1
  k1 = k1
  h1 = h1
  h2 = h2
  Accounts = {gov}
  Governance = gov
  NoAddress = NoAddress
  DIDs = {i1}
  Keys = {k1}
  NoKey = NoKey
  Roots <- MCRoots
  EmptyRoot <- MCEmptyRoot
  SchemaIds = {}
  SchemaHashes = {}
  NoHash = NoHash
  Verifiers = {v1}
  Nonces = {n1, n2}
  Calls = {}
  Policies <- OnlyAdult
  TTL = 0
  MaxTime = 1
  Undefined = Undefined
  FieldPrime = 67
  CmpBits = 3
  Issuers = {i1}
  pkOf <- MCpkOf
  Holders = {h1}
  Skipping = {}
  Ages = {2, 3}
  Sessions = {s1, s2}
  MaxCredentials = 2
  MaxFailures = 0
SPECIFICATION FairSpec
PROPERTIES RevocationTakesHold HonestWalletIsServed
CHECK_DEADLOCK FALSE
