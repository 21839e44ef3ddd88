SPECIFICATION Spec
CONSTANTS
  Identities <- TwoIdentities
  Watched <- OneWatched
  NoOne = NoOne
  MaxTurns = 2
  MaxMoves = 1
  OnEvm <- OneOnEvm
  usdx = usdx
  usdy = usdy
  Contracts <- TwoContracts
  MaxFlights = 3
  MaxTokens = 2
  Chains <- TwoChains
  MaxMerges = 3
  Panes <- OneByOne
INVARIANTS
  PortfolioIsCurrent
  TokensAreProbed
PROPERTIES
  LedgerIsCurrent
  LedgerIsWhole
SYMMETRY ContractsAlike
CHECK_DEADLOCK FALSE
