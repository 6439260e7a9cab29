CONSTANTS
  first = first resend = resend reused = reused rival = rival follower = follower
  k1 = k1 k2 = k2 k3 = k3
  x = x
  body = body other = other
  None = None
  Requests <- MCRequests
  Keys = {k1, k2, k3}
  Records = {x}
  Asks <- MCAsks
SPECIFICATION Spec
\* Every request ends.
CHECK_DEADLOCK FALSE
INVARIANT TypeOK
INVARIANT AnswersTrue
INVARIANT NoLostUpdate

PROPERTY AtomicCommands
