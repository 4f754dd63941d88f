CONSTANTS
  Circuits = {c1, c2}
  Served = {hermez, otherPtau}
  ProofCalls = {p, q}
  ProvingKeys = {k1, k2}
  NoKey = NoKey
  MaxKey = 2
  RUNS = 2
  campaign = campaign
  byHand = byHand
  Launched <- CampaignAndOneByHand
  Chain = 3
  ATTEMPTS = 2
  clean = clean
  edited = edited
  upstream = upstream
  nonceSq = nonceSq
  issuerKeyHashSq = issuerKeyHashSq
  other = other
  Findings <- FindingsOf
  SignalsOn <- LinesOf
  TriagedSignals = {nonceSq, issuerKeyHashSq}
  CellClaims <- Claims2
  CellDelta <- Delta2
  CellVersions = {1, 2}
  para = para
  paraphrase = paraphrase
  Absent = Absent
  NotANumber = NotANumber
  MaxLen = 6
SPECIFICATION ToolchainSpec
INVARIANTS TypesOK SuccessIsPinned
  NothingIsLeft NativeProverUsedTheReportedKey OnlyPutBackKeysEscape OverlapFitsTheBudget PassIsOfTheCircuit
  PassedVerdictsAreEvidence
PROPERTIES PinsAreKept CampaignResultsAreItsOwn CuratedTextIsKept
