CONSTANTS
  NumSteps = 3
  NeedsApproval <- MCGated
  Rollbackable <- MCRollbackable
  AttemptLimits <- MCLimits
  Requests = {p1}
  Ops = {"building", "resume", "approve", "approve-gate", "retry", "retry-current", "rollback", "reject"}
  Env = {"healed", "healing-approval"}
  Serial = TRUE
  MaxApprovals = 2
SPECIFICATION Spec
INVARIANTS ApprovalsCoverRiskySteps RecordedSuccessIsInPlace
