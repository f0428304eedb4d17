SPECIFICATION Spec
CONSTANTS
    Shown = {"card"}
    Tickets = {1, 2}
    FeedBuffer = 1
    MaxWrites = 2
    MaxReads = 2
    Cards = {1, 2}
    MaxFlight = 2
    MaxComings = 2
    Ids = {1, 2, 3}
    MaxActs = 2
    MaxArrivals = 1
    MaxLists = 1
    Work = {1, 2}
    MaxTries = 3
    MaxReloads = 2
    MaxGlances = 1
INVARIANTS
    ActsOnWhatIsShown
CHECK_DEADLOCK FALSE
