CONSTANTS
  Workers = {a, b}
  N = 2
  WARMUP = 1
  TreeCalls = {a, b}
  SmtKeys <- FourBitKeys
  SMT_DEPTH = 2
  LedgerCalls = {l1, l2, l3}
  NodeRuns = {e2e, demo, again}
  Deadline = 1
  VerifierNeeds <- CostsAroundTheLimit
  GAS_LIMIT = 66
  Intrinsic = 2
SPECIFICATION ServicesSpec
INVARIANTS TypesOK SettledIsOnChain NoNodeIsLeft PublishedGasVerified
  SettledInsertionIsKept AnswersAreOfTheCall
  PublishedLookupsAreUndisturbed FailureHasACause
PROPERTY CallsComeBack
CHECK_DEADLOCK FALSE
