\* Two rotations and two watcher failures.
SPECIFICATION ReloadFairSpec
CONSTANTS
    Missing = Missing
    MaxVersion = 2
    MaxFaults = 2
PROPERTIES ServesWholePairs CatchesUp
CHECK_DEADLOCK FALSE
