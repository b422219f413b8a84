SPECIFICATION MCSpec
CONSTANTS
  MaxUpdates = 4
  Accidents = {"crash", "cut-short"}
  Processes = {service, cli}
  Runs = {r1}
  NoRun = NoRun
  MaxEvents = 5
  StreamEnv = {"crash"}
  Emitters = {e1, e2}
  Orgs = {o1, o2}
  None = None
  MaxEmits = 4
  Env = {"fail"}
  Learners = {l1, l2}
  Adapters = {"fs", "terminal"}
  FailureTypes = {"step-failed"}
  Outcomes <- MCOutcomes
  LearningAgents = {"reviewer", "security"}
  SkillIds = {"auth"}
  RunOutcomes <- MCRunOutcomes
  Broken = Broken
  MaxOutcomes = 10
  MaxCycles = 3
  MaxOverlaps = 2
INVARIANTS
  FileIsRecent
  LoneUpdateLands
  RunLogChained
  StreamCoversRunLogs
  EventsFollowStream
  ForkNeedsOverlap
  TrailIsChain
PROPERTIES
  EmitReturns
  CautionIsKept
CHECK_DEADLOCK FALSE
