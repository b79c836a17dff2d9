CONSTANTS
  Node = {1, 2}
  MaxTerm = 2
  MaxLog = 2
  MaxSent = 2
CHECK_DEADLOCK FALSE
SPECIFICATION Spec
INVARIANT PrevTermMatches
