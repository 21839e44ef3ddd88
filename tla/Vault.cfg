SPECIFICATION Spec
CONSTANTS
  p1 = p1
  p2 = p2
  Passes = {p1, p2}
  None = None
  Torn = Torn
  MaxCalls = 3
INVARIANTS
  NeverLost
  OldPassDead
  DeletedIsGone
  OpensWithCurrent
CHECK_DEADLOCK FALSE
