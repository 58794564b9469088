\* Two repositories, one move of GitHub, one fault, under fairness.
SPECIFICATION MCSpec
CONSTANTS
    Repos = {r1, r2}
    RunStates = {"no_run", "failure"}
    NoRuns = NoRuns
    NoEvent = NoEvent
    MaxChanges = 1
    MaxFaults = 1
INVARIANT WatchTypeOK
PROPERTIES ImplementsFeed Converges RevocationReported LoopStops
CHECK_DEADLOCK FALSE
