SPECIFICATION Spec
CONSTANTS
    d1 = d1
    u1 = u1
    u2 = u2
    Checks = {d1}
    Scenarios <- SmallScenarios
    MaxRetries = 2
    MaxRepairs = 1
    MaxCopies = 2
    MaxAsked = 1
    Updaters = {u1, u2}
    MaxStarts = 2
    MaxUpdates = 3
INVARIANTS
    HealthyIsCurrent
    BudgetIsKept
    OneHealthLoop
PROPERTIES
    CheckingEnds
CHECK_DEADLOCK FALSE
