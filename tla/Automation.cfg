SPECIFICATION Spec
CONSTANTS
    Callers = {c1, c2}
    Alerts = {a1}
    MaxRequests = 2
    MaxTime = 3
    MaxTimers = 2
    Hour = 3
    HealingStrategy <- MCHealingStrategy
    RollbackStrategy <- MCRollbackStrategy
    AcknowledgmentRule <- MCAcknowledgmentRule
    Readings <- MCReadings
SYMMETRY CallersAreAlike
INVARIANTS
    RollbackUndoesSuccesses
    RollbacksAreRationed
PROPERTIES
    SelectedHasPersisted
    AcknowledgedAfterWait
CHECK_DEADLOCK FALSE
