SPECIFICATION MCSpec
CONSTANTS
    Commands = {c1, c2}
    Dirs = {"a", "a/b"}
    Files = {"a/b/x", "a/y"}
    Above <- MCAbove
    Batches <- MCBatches
    LastRuns <- MCLastRuns
    MaxQueued = 1
    MaxCommands = 3
    Instances = {"old", "new"}
    Releases <- MCReleases
    Seeding = {"new"}
    Statements = 2
    Actors = {"actor"}
    Requests = {q1, q2}
    Ttl = 2
    MaxTime = 4
    MaxServedRequests = 3
    MaxStarts = 3
    Healers = {executor, healStep}
    Executor = executor
    healStep = healStep
    HealingModes = {"assist", "auto"}
    MaxHealings = 2
    Plans <- MCPlans
    Paths = {"f", "g"}
    OthersPaths = {"g"}
    MaxChangedFiles = 1
    Messages <- MCMessages
    MaxExecutions = 3
    MaxEdits = 2
SYMMETRY Alike
INVARIANTS
    QueueTellsTheTruth
    LoneRollbackCleans
    ListensOnItsSchema
    RevokedIsRefused
    HealingsAreAccounted
    SuccessIsPublished
    RollbackRestoresBranch
CHECK_DEADLOCK FALSE
