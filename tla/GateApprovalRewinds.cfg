CONSTANTS
  NumSteps = 3
  NeedsApproval = {0, 2}
  Rollbackable = {}
  AttemptLimits = {1}
  Requests = {p1}
  Ops = {"building", "approve-gate"}
  Env = {}
  Serial = TRUE
  MaxApprovals = 2
SPECIFICATION Spec
PROPERTY IndexNeverRegresses
