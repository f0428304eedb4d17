SPECIFICATION Spec
CONSTANTS
    Shown = {"run"}
    Tickets = {1, 2}
    FeedBuffer = 1
    MaxWrites = 2
    MaxReads = 2
    Cards = {1, 2}
    MaxFlight = 2
    MaxComings = 1
    Ids = {1, 2, 3}
    MaxActs = 2
    MaxArrivals = 1
    MaxLists = 1
    Work = {1, 2}
    MaxTries = 3
    MaxReloads = 2
    MaxGlances = 1
INVARIANTS
    FollowsTheTail
CHECK_DEADLOCK FALSE
