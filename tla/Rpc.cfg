SPECIFICATION Spec
CONSTANTS
  MaxEndpoints <- FirstAndFallback
  MaxCalls <- ThreeCalls
INVARIANTS
  OneHealthyIsEnough
PROPERTIES
  RemotePromise
CHECK_DEADLOCK FALSE
