SPECIFICATION MCSpec
CONSTANTS
    Governors = {g1, g2}
    GovernedInputs <- MCGovernedInputs
    IdeaWords = {"crm", "leads"}
    PathPrefixes = {"src", "etc"}
    Patterns = {"rm"}
    PrefixesOf <- MCPrefixesOf
    PatternsOf <- MCPatternsOf
    Threshold = 70
    Timeout = 2
    MaxClock = 3
    TestRules <- MCTestRules
    TestTimes = {5, 60, 90}
    SkillRegistry <- MCSkillRegistry
    PlanWords <- MCPlanWords
    AskedWords <- MCAskedWords
    MaxSkills = 3
    MinimumScore = 6
    Ballots <- MCBallots
    Contexts <- MCContexts
    Suites <- MCSuites
    IdeaTexts <- MCIdeaTexts
    Gates = {"security", "architecture", "deployment"}
    Workers = {w1, w2}
    ApprovalRule <- MCApprovalRule
    Facts <- MCFacts
    Handlers = 1
    MaxServed = 4
    MaxSteps = 1
    Runs = {r1, r2}
    GateNames <- MCGateNames
    OptionalGate = "cost"
    RiskGate = "risk"
    RunModes = {"turbo", "safe", "balanced"}
    Reviewers = {v1, v2}
    MaxRows = 2
    MaxReviews = 2
SYMMETRY Alike
INVARIANTS
    EventsAreKept
    DependenciesFirst
    LoneRejectionHolds
    AutonomyNeedsConsent
    RulesAreMonotone
    EveryPlanHangsTogether
CHECK_DEADLOCK FALSE
