\* Four cluster changes (a second rollout in full), two answers or switches, one run.
SPECIFICATION MCSpec
CONSTANTS
    Names = {"f"}
    Namespaces = {"a", "b"}
    AllNamespaces = "#ALL_NS#"
    Repos <- MCRepos
    NoRepo = NoRepo
    Listings <- MCListings
    Runs = {"None", "Failed"}
    MaxRevision = 2
    MaxEvents = 4
    MaxLists = 2
    MaxRuns = 1
INVARIANTS RowsTypeOK ItemsKeepRows ZeroMeansIdle
PROPERTY RowsConverge
CHECK_DEADLOCK FALSE
