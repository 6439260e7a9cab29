\* Under fairness every event is settled, whatever fault hits.
SPECIFICATION FairSpec
CONSTANTS
  e1 = e1  e2 = e2  w1 = w1  w2 = w2  c1 = c1  c2 = c2  k1 = k1  k2 = k2
  Nobody = Nobody
  Events = {e1, e2}
  Workers = {w1}
  Consumers = {c1, c2}
  Claimants = {k1, k2}
  Claimant <- DistinctClaimants
  ConsumersFor <- MixedConsumers
  Unsupported <- SecondUnsupported
  MaxAttempts = 2
  BatchSize = 2
  Concurrency = 1
  FaultKinds <- UniqueViolations
  MaxFaults = 2
  MaxClaims = 4
PROPERTIES EventuallySettled
CHECK_DEADLOCK FALSE
