CONSTANTS
  NumSteps = 1
  NeedsApproval = {}
  Rollbackable = {0}
  AttemptLimits = {1, 2}
  Requests = {p1}
  Ops = {"resume"}
  Env = {"healed"}
  Serial = TRUE
  MaxApprovals = 0
SPECIFICATION FairSpec
PROPERTY HealingRunsOut
