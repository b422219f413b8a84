CONSTANTS
  NumSteps = 3
  NeedsApproval <- MCGated
  Rollbackable <- MCRollbackable
  AttemptLimits <- MCLimits
  Requests = {p1}
  Ops = {"building", "resume", "approve", "retry-current", "reject"}
  Env = {"throw", "crash", "healed"}
  Serial = TRUE
  MaxApprovals = 3
SPECIFICATION Spec
INVARIANTS SucceedsAtMostOnce CompletedMeansDone
PROPERTIES ImplementsLifecycle
