SPECIFICATION Spec
CONSTANTS
  WorkOrders = {w1, w2}
  Jobs = {j1}
  Technicians = {t1, t2}
  Assignments = {a1, a2}
  Labours = {}
  Requests = {}
  Inspections = {q1, q2}
  Sessions = {s1}
  WoStates <- ShortWoStates
  WoStart = "in_progress"
  WoGraph <- ShortWoGraph
  WoTerminal = {"closed", "cancelled"}
  WoCancelled = {"cancelled"}
  TakesJobs = {"in_progress"}
  TakesRequests = {"in_progress"}
  JobStates <- ShortJobStates
  JobGraph <- ShortJobGraph
  JobTerminal = {"completed"}
  NeedsAssignment = {"in_progress", "paused"}
  LabourAllowed = {"in_progress"}
  MandatoryQc = TRUE
  None = None
SYMMETRY Symmetric
INVARIANT ClosedComplete
CHECK_DEADLOCK FALSE
