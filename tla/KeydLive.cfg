SPECIFICATION FairSpec
CONSTANTS
  good = good
  bad = bad
  Payload <- OnePayload
  Signable <- GoodSigns
  Origins = {"ui"}
  FrameOps <- LiveOps
  VaultHasSecret = TRUE
  AutolockUp = TRUE
  kPassThrottleAfter = 1
  MaxProposals = 1
  MaxGen = 1
  MaxFrames = 2
  MaxNoise = 0
  MaxEvents = 1
INVARIANTS
  AutolockWipes
  FreeGuesses
PROPERTIES
  EveryFrameAnswered
  AutolockGetsThrough
  OrphanEnds
CHECK_DEADLOCK FALSE
