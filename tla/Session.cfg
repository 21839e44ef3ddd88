SPECIFICATION Spec
CONSTANTS
  Ids = {1, 2, 3}
  FirstMetas <- TwoWallets
  NewMetas <- Newcomers
  Formats <- TwoFormats
  MaxCount = 2
  MaxEdits = 3
INVARIANTS
  BooksAreOurs
  BalancesAreOurs
  LandsWhereStarted
  SidecarIsCurrent
CHECK_DEADLOCK FALSE
