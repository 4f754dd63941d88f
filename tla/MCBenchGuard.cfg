CONSTANTS
  campaign = campaign
  byHand = byHand
  Top <- CampaignAndOneByHand
  Chain = 2
  ATTEMPTS = 1
SPECIFICATION Spec
INVARIANT NoOverlap
