SPECIFICATION Spec
CONSTANTS
    Calls = {c1, c2}
    Route <- SmallRoute
    MaxTurns = 2
    Projects = {"a", "b"}
    Plans <- SmallPlans
    MaxJobs = 1
    Promises = {"p1", "p2"}
    Drafts <- SmallDrafts
    Talking = {c1}
    MaxRuns = 2
    MaxRows = 2
    MaxSays = 2
INVARIANTS
    
    QueuedWithDependencies
    AgreementKept
PROPERTIES
    TurnEnds
CHECK_DEADLOCK FALSE
