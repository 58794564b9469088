\* Three requests of an account, its recreated successor and an administrator.
SPECIFICATION Spec
CONSTANTS
    Requests = {q1, q2, q3}
    Users <- MCUsers
    Pats = {p1}
    NoSecret = NoSecret
    Retries = 2
    TTL = 1
    MaxTime = 1
SYMMETRY Symmetry
INVARIANT SetBackByRemovals
PROPERTIES OnlyOwnerTouches LostOnlyToStaleDrop
CHECK_DEADLOCK FALSE
