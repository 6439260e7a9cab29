SPECIFICATION Spec
CONSTANTS
  Messages = {m1}
  Workers = {w1, w2, w3}
  MaxAttempts = 2
  MaxTries = 5
  None = None
SYMMETRY Symmetric
INVARIANT TypeOK
INVARIANT LedgerAgrees
INVARIANT DuplicatesExplained
INVARIANT RefusedForGood
INVARIANT OverrunByWorkers
CHECK_DEADLOCK FALSE
