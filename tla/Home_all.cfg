SPECIFICATION HomeOrRunSpec
CONSTANTS
    Procs = {p1, p2, p3}
    NoProc = NoProc
    Commands <- AllCommands
    Racing <- WhileExiting
    Reuse = {p1}
    Crashes = 1
    Callers = {c1, c2}
    Refreshers = {r1, r2}
    NoCaller = NoCaller
    Flips = 2
    Rechecks = 1
    Runs = {"r1"}
    Readers = {s1}
    LogBuffer = 1
    MaxLines = 3
    Transcripts <- SmallTranscripts
    Capacity = 1
    Steps <- SmallSteps
    Budget = 1
    Tries = 2
INVARIANTS OneDaemon LogWhole CountsHonest JudgedByEvidence
PROPERTIES RefusedByTheLiving StopEnds HostLearned FollowersReleased FinalStands RunEnds
CHECK_DEADLOCK FALSE
