SPECIFICATION Spec
CONSTANTS
  WorkOrders = {w1}
  Jobs = {j1}
  Technicians = {t1}
  Assignments = {a1, a2}
  Labours = {l1}
  Requests = {r1}
  Inspections = {q1}
  Sessions = {s1, s2}
  WoStates <- ShortWoStates
  WoStart = "in_progress"
  WoGraph <- ShortWoGraph
  WoTerminal = {"closed", "cancelled"}
  WoCancelled = {"cancelled"}
  TakesJobs = {"in_progress"}
  TakesRequests = {"in_progress"}
  JobStates <- ShortJobStates
  JobGraph <- ShortJobGraph
  JobTerminal = {"completed"}
  NeedsAssignment = {"in_progress", "paused"}
  LabourAllowed = {"in_progress"}
  MandatoryQc = TRUE
  None = None
SYMMETRY Symmetric
INVARIANT TypeOK
INVARIANT ClosedComplete
PROPERTY TerminalFrozen
PROPERTY RequestsAreAtomic
CHECK_DEADLOCK FALSE
