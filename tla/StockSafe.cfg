SPECIFICATION Spec
CONSTANTS
  c1 = c1
  c2 = c2
  s1 = s1
  s2 = s2
  w1 = w1
  w2 = w2
  Sessions = {s1, s2}
  Cells = {c1}
  Quarantine = quarantine
  WorkOrders = {w1, w2}
  Keys = {k1}
  Opening <- OpeningOfTwo
  Quantities = {1, 2}
  MaxRequests = 3
  None = None
SYMMETRY Symmetric
INVARIANT TypeOK
INVARIANT Coherent
INVARIANT Conserved
INVARIANT OwnReservationConsumedOnce
INVARIANT ReleasedNotActive
INVARIANT CompletedHoldsNothing
INVARIANT WaitsForward
PROPERTY RequestsAreEntries
CHECK_DEADLOCK FALSE
