SPECIFICATION Spec
CONSTANTS
  Messages = {m1}
  Workers = {w1, w2, w3}
  MaxAttempts = 2
  MaxTries = 4
  None = None
SYMMETRY Symmetric
INVARIANT RetriesWithinBudget
CHECK_DEADLOCK FALSE
