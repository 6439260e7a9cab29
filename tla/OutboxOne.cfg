\* One event, two subscribers, two workers, two faults of any kind.
SPECIFICATION Spec
CONSTANTS
  e1 = e1  e2 = e2  w1 = w1  w2 = w2  c1 = c1  c2 = c2  k1 = k1  k2 = k2
  Nobody = Nobody
  Events = {e1}
  Workers = {w1, w2}
  Consumers = {c1, c2}
  Claimants = {k1, k2}
  Claimant <- DistinctClaimants
  ConsumersFor <- TwoConsumers
  Unsupported <- AllSupported
  MaxAttempts = 2
  BatchSize = 1
  Concurrency = 1
  FaultKinds <- AllFaults
  MaxFaults = 2
  MaxClaims = 4
INVARIANTS TypeOK EffectOnce PaidByFaults ErrorRecordTruthful NoDoubleOwnership
PROPERTIES TerminalForever ImplementsDelivery
CHECK_DEADLOCK FALSE
