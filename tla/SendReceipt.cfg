SPECIFICATION Spec
CONSTANTS
  Wallets <- SeedAndOld
  Wishes <- AllWishes
  EvmQuotes <- TwoQuotes
  SolQuotes <- SolMarkets
  BtcQuotes <- BtcMarkets
  MaxReviews = 2
  MaxProposals = 2
  MaxPolls = 1
  MaxSwitches = 1
INVARIANT
  MempoolIsReceipt
CHECK_DEADLOCK FALSE
