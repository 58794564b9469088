\* Two accounts and two namespaces, two actions, two disconnects, under fairness.
SPECIFICATION FairSpec
CONSTANTS
    Accounts = {a1, a2}
    Namespaces = {n1, n2}
    Unknown = Unknown
    None = None
    MaxActions = 2
    MaxDeletes = 2
INVARIANTS RowsAreOwn WarnsOnlyExpired
PROPERTIES ListSettles DisconnectEnds
CHECK_DEADLOCK FALSE
