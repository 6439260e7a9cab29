\* A row whose worker dies at it is claimed beyond the ceiling.
SPECIFICATION Spec
CONSTANTS
  e1 = e1  e2 = e2  w1 = w1  w2 = w2  c1 = c1  c2 = c2  k1 = k1  k2 = k2
  Nobody = Nobody
  Events = {e1}
  Workers = {w1}
  Consumers = {c1}
  Claimants = {k1, k2}
  Claimant <- DistinctClaimants
  ConsumersFor <- OneConsumer
  Unsupported <- AllSupported
  MaxAttempts = 2
  BatchSize = 1
  Concurrency = 1
  FaultKinds <- AllFaults
  MaxFaults = 3
  MaxClaims = 5
INVARIANTS AttemptCeiling
CHECK_DEADLOCK FALSE
