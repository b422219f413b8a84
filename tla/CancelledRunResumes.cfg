CONSTANTS
  NumSteps = 1
  NeedsApproval = {}
  Rollbackable = {}
  AttemptLimits = {1}
  Requests = {p1}
  Ops = {"reject", "resume"}
  Env = {}
  Serial = TRUE
  MaxApprovals = 0
SPECIFICATION Spec
PROPERTY CancelledIsFinal
