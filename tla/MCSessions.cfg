CONSTANTS
  gov = gov
  i1 = i1
  k1 = k1
  r1 = r1
  v1 = v1
  v2 = v2
  n1 = n1
  n2 = n2
  foreign = foreign
  Accounts = {gov, alice}
  Governance = gov
  NoAddress = NoAddress
  DIDs = {i1, d2}
  Keys = {k1, k2}
  NoKey = NoKey
  Roots = {EmptyRoot, r1}
  EmptyRoot = EmptyRoot
  SchemaIds = {s1}
  SchemaHashes = {h1, h2}
  NoHash = NoHash
  Verifiers = {v1, v2}
  Nonces = {n1, n2}
  Calls = {c1, c2}
  Presentations <- SessionPresentations
  Policies <- AgeOver18
  TTL = 1
  MaxTime = 2
  Undefined = Undefined
SPECIFICATION SessionsSpec
SYMMETRY Symmetry
INVARIANTS TypeOK RootsHaveAnAuthor NonceAcceptedOnce
PROPERTIES RegistrationsAreFinal FreshnessIsExact KeepsPromise
CHECK_DEADLOCK FALSE
