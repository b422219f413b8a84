CONSTANTS
  NumSteps = 2
  NeedsApproval = {0, 1}
  Rollbackable = {0}
  AttemptLimits = {2}
  Requests = {p1, p2}
  Ops = {"building", "approve-gate", "retry-current"}
  Env = {"crash", "healed", "healing-approval"}
  Serial = FALSE
  MaxApprovals = 1
SPECIFICATION FairSpec
INVARIANTS OneRiskyStepPerRequest NoRiskyStepBeforeApproval
PROPERTY RequestsAreAnswered
