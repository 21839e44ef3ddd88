SPECIFICATION Spec
CONSTANTS
  good = good
  bad = bad
  Payload <- OnePayload
  Signable <- GoodSigns
  Origins = {"ui"}
  FrameOps <- WalletOps
  VaultHasSecret = TRUE
  AutolockUp = TRUE
  kPassThrottleAfter = 1
  MaxProposals = 0
  MaxGen = 1
  MaxFrames = 2
  MaxNoise = 0
  MaxEvents = 1
INVARIANTS
  OpenWasAskedAfterLock
CHECK_DEADLOCK FALSE
