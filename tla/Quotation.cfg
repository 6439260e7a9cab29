SPECIFICATION Spec
CONSTANTS
  WorkOrders = {w1}
  Quotations = {q1, q2}
  Revisions = {r1, r2}
  Items = {a, b}
  Sessions = {s1, s2}
  None = None
SYMMETRY Symmetric
INVARIANT TypeOK
INVARIANT StandingAgrees
INVARIANT ReliedOnAccepted
PROPERTY AnswerStands
CHECK_DEADLOCK FALSE
