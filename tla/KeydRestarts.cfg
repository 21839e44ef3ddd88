SPECIFICATION Spec
CONSTANTS
  good = good
  bad = bad
  Payload <- TwoPayloads
  Signable <- GoodSigns
  Origins = {"ui", "anon"}
  FrameOps <- RestartOps
  VaultHasSecret = TRUE
  AutolockUp = TRUE
  kPassThrottleAfter = 1
  MaxProposals = 1
  MaxGen = 2
  MaxFrames = 2
  MaxNoise = 1
  MaxEvents = 0
INVARIANTS
  TypeOK
  SignApproveAudit
  OneVerdictRecord
  SignedOnceAndRecorded
  AcceptedIsRecorded
PROPERTIES
  VerdictsAreFinal
  KeepsThePromise
CHECK_DEADLOCK FALSE
