SPECIFICATION Spec
CONSTANTS
  Wishes <- AllWishes
  Offers <- TwoRates
  MaxReviews = 2
  MaxProposals = 4
  MaxPolls = 1
  MaxSwitches = 1
INVARIANTS
  SignsTheQuote
  BothSignedFirst
  PairRunsInOrder
  SwapsOnce
  PairIsHeld
CHECK_DEADLOCK FALSE
