SPECIFICATION FairSpec
CONSTANTS
  Wallets <- TwoSeeds
  Wishes <- AllWishes
  EvmQuotes <- TwoQuotes
  SolQuotes <- SolMarkets
  BtcQuotes <- BtcMarkets
  MaxReviews = 2
  MaxProposals = 2
  MaxPolls = 1
  MaxSwitches = 1
INVARIANTS
  SignsTheScreen
  PaysOnce
  ReviewIsUnsent
  ReceiptIsTrue
  PendingIsHeld
  PlansAreSound
CHECK_DEADLOCK FALSE
PROPERTIES
  DeliveryEnds
