CONSTANTS
  gov = gov
  i1 = i1
  k1 = k1
  r1 = r1
  v1 = v1
  v2 = v2
  n1 = n1
  n2 = n2
  foreign = foreign
  Accounts = {gov}
  Governance = gov
  NoAddress = NoAddress
  DIDs = {i1}
  Keys = {k1}
  NoKey = NoKey
  Roots = {EmptyRoot, r1}
  EmptyRoot = EmptyRoot
  SchemaIds = {}
  SchemaHashes = {}
  NoHash = NoHash
  Verifiers = {v1}
  Nonces = {n1}
  Calls = {c1}
  Presentations <- MCPresentations
  Policies <- MCPolicies
  TTL = 0
  MaxTime = 1
  Undefined = Undefined
SPECIFICATION FairChainSpec
INVARIANTS TypeOK AcceptanceRestsOnCurrentFacts
PROPERTY EveryCallSettles
