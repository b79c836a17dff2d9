CONSTANTS
  Node = {1, 2, 3}
  MaxTerm = 2
  MaxLog = 1
  MaxSent = 2
CHECK_DEADLOCK FALSE
SPECIFICATION Spec
INVARIANT OneVotePerTerm
